---------------------------- MODULE Spec2Model ----------------------------
(***************************************************************************)
(* Model of linear-region-tools: the Region model (src/src/lib.rs), the    *)
(* sector ("anvil", .mca) format engine (src/src/anvil.rs), the stream     *)
(* ("linear") format engine (src/src/linear.rs) and the atomic-replace     *)
(* write primitive (lib.rs io_utils).                                      *)
(*                                                                         *)
(* Representation.  A file name is the sequence of its characters.  A      *)
(* chunk payload is the sequence of its bytes.  A file's content is a      *)
(* record of the fields its reader decodes from fixed byte positions       *)
(* (tables, headers) plus the byte length of the file.  A vector or table  *)
(* of 32-bit words is kept as its length and its non-zero entries.         *)
(* flate2 and zstd are libraries outside the repository: a compressed      *)
(* stream is a record carrying its own byte length and the bytes it        *)
(* decodes to, and a stream that does not decode is marked invalid.        *)
(***************************************************************************)
EXTENDS Integers, Sequences, FiniteSets, TLC

\* fs     : the file system, path -> file
\* region : the Region the program holds (NoRegion before a read)
\* first  : the Region returned by the first read
\* trace  : the operations performed so far
\* status : the result of the last operation
\* cur    : the path of the file the next read takes
\* aw     : the position of the atomic_write call in progress
\* build  : whether the crate was built with overflow checks ("debug") or
\*          without ("release")
\* fix    : the runs of fix_region_file so far: arguments, the files before
\*          the run, the Region as read, the Region after the chunk loop,
\*          the FixStats
VARIABLES fs, region, first, trace, status, cur, aw, build, fix

vars == <<fs, region, first, trace, status, cur, aw, build, fix>>

(***************************************************************************)
(* Program constants (lib.rs 16-22, anvil.rs 20/59, linear.rs 55/114).     *)
(***************************************************************************)
REGION_DIMENSION == 32
CHUNKS_PER_REGION == REGION_DIMENSION * REGION_DIMENSION
SECTOR_SIZE == 4096
\* 0xc3ff13183cca9d9a as the eight bytes u64::to_be_bytes gives
LINEAR_SIGNATURE == <<195, 255, 19, 24, 60, 202, 157, 154>>
LINEAR_VERSION == 1
COMPRESSION_TYPE_ZLIB == 2
EXTERNAL_FILE_COMPRESSION_TYPE == 128 + 2
ChunkLocation_SIZE == 4
ChunkDataHeader_SIZE == 5
LinearHeader_SIZE == 24
ChunkMeta_SIZE == 8
MAX_SECTORS == 255

(***************************************************************************)
(* Bounds of the model.                                                    *)
(***************************************************************************)
MaxChunks == 2
MaxOps == 5

Slots == 0 .. (CHUNKS_PER_REGION - 1)

NoRegion == [none |-> TRUE]

Min(a, b) == IF a < b THEN a ELSE b
Max(a, b) == IF a > b THEN a ELSE b

\* truncating casts `as u8`, `as u16`; the packed 3-byte offset keeps 24 bits
AsU8(n) == n % 256
AsU16(n) == n % 65536
\* variant: the offset is packed into two bytes
AsU24_TwoBytes(n) == n % 65536

AsU24(n) == n % 16777216

\* the elements of a finite set of integers in increasing order
RECURSIVE SortedSeq(_)
SortedSeq(S) ==
    IF S = {} THEN <<>>
    ELSE LET m == CHOOSE x \in S : \A y \in S : x <= y
         IN  <<m>> \o SortedSeq(S \ {m})

(***************************************************************************)
(* Strings: file names are character sequences.                            *)
(***************************************************************************)
Digits == <<"0", "1", "2", "3", "4", "5", "6", "7", "8", "9">>
IsDigit(c) == \E d \in 1..10 : Digits[d] = c
DigitVal(c) == (CHOOSE d \in 1..10 : Digits[d] = c) - 1

I32_MAX == 2147483647

\* the value of a digit string, or -1 once it exceeds I32_MAX + 1 (the
\* accumulation of from_str_radix, which fails on overflow)
RECURSIVE DecVal(_)
DecVal(s) ==
    IF s = <<>> THEN 0
    ELSE LET hi == DecVal(SubSeq(s, 1, Len(s) - 1))
             d  == DigitVal(s[Len(s)])
         IN  IF hi < 0 \/ hi > (I32_MAX - d) \div 10 THEN -1 ELSE 10 * hi + d

\* str::parse::<i32>: optional sign, at least one digit, value in i32 range
ParseI32(s) ==
    LET signed == Len(s) > 0 /\ s[1] \in {"-", "+"}
        neg    == signed /\ s[1] = "-"
        body   == IF signed THEN Tail(s) ELSE s
        okform == Len(body) > 0 /\ \A k \in 1..Len(body) : IsDigit(body[k])
        mag    == IF okform THEN DecVal(body) ELSE -1
        \* i32::MIN has magnitude I32_MAX + 1
        isMin  == okform /\ neg /\ mag < 0 /\ Len(body) > 1
                  /\ DecVal(SubSeq(body, 1, Len(body) - 1)) = 214748364
                  /\ body[Len(body)] = "8"
    IN  IF isMin THEN [ok |-> TRUE, val |-> (0 - I32_MAX) - 1]
        ELSE IF okform /\ mag >= 0
        THEN [ok |-> TRUE, val |-> IF neg THEN 0 - mag ELSE mag]
        ELSE [ok |-> FALSE, val |-> 0]

RECURSIVE FmtNat(_)
FmtNat(n) == IF n < 10 THEN <<Digits[n + 1]>>
             ELSE FmtNat(n \div 10) \o <<Digits[(n % 10) + 1]>>

\* Display of an i32 ("{}")
FmtI32(n) == IF n < 0 - I32_MAX THEN <<"-">> \o FmtNat(I32_MAX \div 10) \o <<"8">>
             ELSE IF n < 0 THEN <<"-">> \o FmtNat(0 - n)
             ELSE FmtNat(n)

\* str::split('.')
RECURSIVE SplitDots(_)
SplitDots(s) ==
    IF \A k \in 1..Len(s) : s[k] # "."
    THEN <<s>>
    ELSE LET k == CHOOSE j \in 1..Len(s) :
                      s[j] = "." /\ \A h \in 1..(j - 1) : s[h] # "."
         IN  <<SubSeq(s, 1, k - 1)>> \o SplitDots(SubSeq(s, k + 1, Len(s)))

\* Region::parse_filename
parse_filename(filename) ==
    LET parts == SplitDots(filename) IN
    IF Len(parts) < 3
    THEN [ok |-> FALSE, err |-> "InvalidFormat"]
    ELSE LET px == ParseI32(parts[2])
             pz == ParseI32(parts[3])
         IN  IF ~px.ok THEN [ok |-> FALSE, err |-> "ParseIntError"]
             ELSE IF ~pz.ok THEN [ok |-> FALSE, err |-> "ParseIntError"]
             ELSE [ok |-> TRUE, x |-> px.val, z |-> pz.val]

\* Path::with_extension on a file name that has an extension
with_extension(name, ext) ==
    LET k == CHOOSE j \in 1..Len(name) :
                 name[j] = "." /\ \A h \in (j + 1)..Len(name) : name[h] # "."
    IN  SubSeq(name, 1, k) \o ext

ExtMca == <<"m", "c", "a">>
ExtLinear == <<"l", "i", "n", "e", "a", "r">>
ExtMcc == <<"m", "c", "c">>
ExtTmp == <<"t", "m", "p">>

\* format!("c.{}.{}.mcc", chunk_x, chunk_z)
ExternalName(chunk_x, chunk_z) ==
    <<"c", ".">> \o FmtI32(chunk_x) \o <<".">> \o FmtI32(chunk_z) \o <<".">> \o ExtMcc

RegionName(x, z, ext) ==
    <<"r", ".">> \o FmtI32(x) \o <<".">> \o FmtI32(z) \o <<".">> \o ext

\* a path is a directory and a file name; Path::parent / Path::join
PathOf(dir, name) == [dir |-> dir, name |-> name]

(***************************************************************************)
(* File system: a function from the paths that exist to files.  A file has *)
(* a content, a modification time (seconds, nanoseconds) and a flag telling*)
(* whether its bytes have reached the disk (fsync).                        *)
(***************************************************************************)
Exists(f, p) == p \in DOMAIN f

PutFile(f, p, file) == [q \in (DOMAIN f) \cup {p} |-> IF q = p THEN file ELSE f[q]]

RemoveFile(f, p) == [q \in (DOMAIN f) \ {p} |-> f[q]]

\* the clock value a newly written file receives before set_mtime runs
NowTime == [secs |-> 2000, nanos |-> 500]

\* variant: the bytes are written straight to the final path
TempPath_InPlace(path) == path

\* lib.rs 239: path.with_extension("tmp")
TempPath(path) == PathOf(path.dir, with_extension(path.name, ExtTmp))

\* io_utils::atomic_write, all steps succeeding: the temporary file is
\* created, filled, synced and renamed over the final path
atomic_write(f, path, data) ==
    LET temp_path == TempPath(path)
        withTemp  == PutFile(f, temp_path,
                             [content |-> data, mtime |-> NowTime, synced |-> TRUE])
    IN  PutFile(RemoveFile(withTemp, temp_path), path, withTemp[temp_path])

\* io_utils::set_mtime: FileTime::from_unix_time(mtime, 0)
set_mtime(f, path, mtime) ==
    [f EXCEPT ![path].mtime = [secs |-> mtime, nanos |-> 0]]

(***************************************************************************)
(* Vectors of words: len entries, of which nz holds the non-zero ones      *)
(* (0-based index |-> value).                                              *)
(***************************************************************************)
EmptyMap == << >>

MapPut(m, k, v) == [j \in (DOMAIN m) \cup {k} |-> IF j = k THEN v ELSE m[j]]

MapDel(m, k) == [j \in (DOMAIN m) \ {k} |-> m[j]]

\* SmallVec::from_elem(0, n)
VecZeros(n) == [len |-> n, nz |-> EmptyMap]

VecGet(v, i) == IF i \in DOMAIN v.nz THEN v.nz[i] ELSE 0

\* v[i] = x
VecSet(v, i, x) == [v EXCEPT !.nz = IF x = 0 THEN MapDel(@, i) ELSE MapPut(@, i, x)]

\* SmallVec::extend_from_slice
extend_from_slice(v, w) ==
    [len |-> v.len + w.len,
     nz  |-> [j \in (DOMAIN v.nz) \cup {k + v.len : k \in DOMAIN w.nz} |->
                 IF j \in DOMAIN v.nz THEN v.nz[j] ELSE w.nz[j - v.len]]]

\* Vec::resize(n, 0): cut to n entries or pad with zeros
VecResize(v, n) ==
    [len |-> n, nz |-> [j \in {k \in DOMAIN v.nz : k < n} |-> v.nz[j]]]

(***************************************************************************)
(* Region model (lib.rs 49-153).                                           *)
(***************************************************************************)
Chunk_new(data, x, z) == [data |-> data, x |-> x, z |-> z]

Region_new(region_x, region_z) ==
    [chunks     |-> EmptyMap,
     region_x   |-> region_x,
     region_z   |-> region_z,
     mtime      |-> NowTime.secs,
     timestamps |-> VecZeros(CHUNKS_PER_REGION)]

has_chunk(r, index) == index \in DOMAIN r.chunks

get_chunk(r, index) ==
    IF has_chunk(r, index) THEN r.chunks[index] ELSE NoRegion

set_chunk(r, index, chunk, timestamp) ==
    [r EXCEPT !.timestamps = VecSet(@, index, timestamp),
              !.chunks = MapPut(@, index, chunk)]

remove_chunk(r, index) ==
    [r EXCEPT !.chunks = MapDel(@, index),
              !.timestamps = VecSet(@, index, 0)]

\* the five low bits of a non-negative value, bit by bit
Low5(n) ==
    (n % 2) + 2 * ((n \div 2) % 2) + 4 * ((n \div 4) % 2) + 8 * ((n \div 8) % 2)
    + 16 * ((n \div 16) % 2)

\* variant: the remainder of the division by 32, which has the sign of x
And31_Rem(x) ==
    IF x >= 0 THEN x % 32 ELSE 0 - ((((0 - (x + 1)) % 32) + 1) % 32)

\* x & 31 on a two's-complement i32: the bits of a negative x are the
\* complements of the bits of -(x + 1)
And31(x) == IF x >= 0 THEN Low5(x) ELSE 31 - Low5(0 - (x + 1))

ChunkAtIndex(x, z) == And31(z) * REGION_DIMENSION + And31(x)

get_chunk_at(r, x, z) == get_chunk(r, ChunkAtIndex(x, z))

set_chunk_at(r, x, z, chunk, timestamp) ==
    set_chunk(r, ChunkAtIndex(x, z), chunk, timestamp)

(***************************************************************************)
(* flate2 (zlib).  The length of the compressed stream is whatever the     *)
(* library returns for the payload; the code only looks at that length.    *)
(* ZlibLen fixes one such function, chosen so that payloads exist whose    *)
(* stream ends exactly on a sector boundary, at 255 sectors and beyond.    *)
(***************************************************************************)
ZlibLenOfFirst(b) ==
    CASE b = 7 -> SECTOR_SIZE - ChunkDataHeader_SIZE
      [] b = 8 -> MAX_SECTORS * SECTOR_SIZE - ChunkDataHeader_SIZE
      [] b = 9 -> MAX_SECTORS * SECTOR_SIZE - ChunkDataHeader_SIZE + 1
      [] OTHER -> 9

ZlibLen(p) == IF p = <<>> THEN 8 ELSE ZlibLenOfFirst(p[1]) + (Len(p) - 1)

\* ZlibEncoder::write_all + finish
ZlibCompress(p) == [valid |-> TRUE, zlen |-> ZlibLen(p), raw |-> p]

\* a stream that is not zlib data
BadStream == [valid |-> FALSE, zlen |-> 0, raw |-> <<>>]

\* ZlibDecoder::read_to_end over the first avail bytes of the stream's
\* bytes: bytes after the end of the stream are ignored, a cut stream fails
ZlibDecode(stream, avail) ==
    IF stream.valid /\ stream.zlen <= avail
    THEN [ok |-> TRUE, data |-> stream.raw]
    ELSE [ok |-> FALSE, data |-> <<>>]

(***************************************************************************)
(* Sector format (anvil.rs).  An .mca content is                           *)
(*   size : byte length of the file                                        *)
(*   loc  : the location entries [offset, sector_count] that are not       *)
(*          (0, 0), by slot                                                *)
(*   ts   : the vector of the 1024 timestamps                              *)
(*   sec  : for each sector where a chunk run starts, the 5-byte header    *)
(*          [length, ctype] and the stream that follows it; every other    *)
(*          data sector reads as zero bytes                                *)
(* An .mcc content is the stream it holds.                                 *)
(***************************************************************************)
ChunkLocation_new(offset, sector_count) ==
    [offset |-> AsU24(offset), sector_count |-> sector_count]

ChunkLocation_is_empty(l) == l.offset = 0 /\ l.sector_count = 0

EmptyLocation == ChunkLocation_new(0, 0)

LocAt(c, i) == IF i \in DOMAIN c.loc THEN c.loc[i] ELSE EmptyLocation

\* the location table with entry i set to l
LocPut(loc, i, l) == IF ChunkLocation_is_empty(l) THEN MapDel(loc, i) ELSE MapPut(loc, i, l)

ChunkDataHeader_new(length, compression_type) ==
    [length |-> length, ctype |-> compression_type]

ZeroSector == [length |-> 0, ctype |-> 0, stream |-> BadStream]

SectorAt(c, off) == IF off \in DOMAIN c.sec THEN c.sec[off] ELSE ZeroSector

Ok(r) == [ok |-> TRUE, region |-> r]
Err(e) == [ok |-> FALSE, err |-> e]

\* The builds of the crate: i32 arithmetic that overflows panics with
\* overflow checks ("debug") and wraps without them ("release").
Builds == {"debug", "release"}

\* region * REGION_DIMENSION as i32 leaves the i32 range
TwoTo26 == 67108864
MulOverflows(r) == r >= TwoTo26 \/ r < 0 - TwoTo26

\* region * REGION_DIMENSION as i32, wrapped to 32 bits (two's complement)
I32Mul32(r) ==
    LET low == r % (2 * TwoTo26)
    IN  IF low < TwoTo26 THEN low * REGION_DIMENSION
        ELSE (low - 2 * TwoTo26) * REGION_DIMENSION

\* the chunk coordinates of slot i (anvil.rs 164-165, 230-231; linear.rs
\* 239-240); the sum stays within i32 whenever the product does
ChunkX(region_x, i) == I32Mul32(region_x) + (i % REGION_DIMENSION)
ChunkZ(region_z, i) == I32Mul32(region_z) + (i \div REGION_DIMENSION)

\* the multiplications of lines 164-165 panic
CoordsPanic(region_x, region_z) ==
    build = "debug" /\ (MulOverflows(region_x) \/ MulOverflows(region_z))

\* variant: a run that ends exactly at the end of the file counts as beyond
OutOfBounds_Inclusive(chunk_end, file_size) == chunk_end >= file_size

\* anvil.rs 151: the run ends beyond the file
OutOfBounds(chunk_end, file_size) == chunk_end > file_size

\* one iteration of the chunk loop of read_anvil_region (anvil.rs 136-194):
\* "skip" (continue), "load" (set_chunk) or "fail" (return Err)
AnvilChunkStep(f, path, c, region_x, region_z, i) ==
    LET location      == LocAt(c, i)
        sector_offset == location.offset
        sector_count  == location.sector_count
        chunk_start   == sector_offset * SECTOR_SIZE
        chunk_end     == chunk_start + sector_count * SECTOR_SIZE
        run           == SectorAt(c, sector_offset)
        avail         == (chunk_end - chunk_start) - ChunkDataHeader_SIZE
        chunk_x       == ChunkX(region_x, i)
        chunk_z       == ChunkZ(region_z, i)
        external_path == PathOf(path.dir, ExternalName(chunk_x, chunk_z))
    IN  IF ChunkLocation_is_empty(location) THEN [act |-> "skip"]
        ELSE IF sector_offset = 0 \/ sector_count = 0 THEN [act |-> "skip"]
        ELSE IF OutOfBounds(chunk_end, c.size) THEN [act |-> "skip"]
        ELSE IF chunk_end - chunk_start < ChunkDataHeader_SIZE THEN [act |-> "skip"]
        ELSE IF CoordsPanic(region_x, region_z) THEN [act |-> "fail", err |-> "panic"]
        ELSE IF run.ctype = COMPRESSION_TYPE_ZLIB
        THEN LET data_length == Min(run.length, avail)
                 d == ZlibDecode(run.stream, data_length)
             IN  IF d.ok
                 THEN [act |-> "load", chunk |-> Chunk_new(d.data, chunk_x, chunk_z)]
                 ELSE [act |-> "fail", err |-> "DecompressZlib"]
        ELSE IF run.ctype = EXTERNAL_FILE_COMPRESSION_TYPE
        THEN IF ~Exists(f, external_path)
             THEN [act |-> "fail", err |-> "Io"]
             ELSE LET x == f[external_path].content
                      d == ZlibDecode(x.stream, x.size)
                  IN  IF d.ok
                      THEN [act |-> "load", chunk |-> Chunk_new(d.data, chunk_x, chunk_z)]
                      ELSE [act |-> "fail", err |-> "DecompressExternal"]
        ELSE [act |-> "fail", err |-> "InvalidFormat"]

\* the set_chunk calls of the loop, in index order (anvil.rs 192-193)
RECURSIVE LoadChunks(_, _, _, _)
LoadChunks(r, idxs, steps, timestamps) ==
    IF idxs = <<>> THEN r
    ELSE LET i == Head(idxs)
         IN  LoadChunks(set_chunk(r, i, steps[i].chunk, VecGet(timestamps, i)),
                        Tail(idxs), steps, timestamps)

\* anvil.rs 127-131: the Region before the chunk loop
AnvilNewRegion(region_x, region_z, mtime, timestamps) ==
    LET new == Region_new(region_x, region_z)
    IN  [new EXCEPT !.mtime = mtime,
                    !.timestamps = extend_from_slice(@, timestamps)]

\* read_anvil_region (anvil.rs 85-203); slots whose location is (0, 0) are
\* skipped by the loop and left out of the enumeration
read_anvil_region(f, path) ==
    LET pf == parse_filename(path.name) IN
    IF ~pf.ok THEN Err(pf.err)
    ELSE IF ~Exists(f, path) THEN Err("Io")
    ELSE
    LET c == f[path].content
        file_size == c.size
    IN
    IF file_size < SECTOR_SIZE * 2 THEN Err("InvalidFormat")
    ELSE
    LET timestamps == c.ts
        r0      == AnvilNewRegion(pf.x, pf.z, f[path].mtime.secs, timestamps)
        live    == DOMAIN c.loc
        steps   == [i \in live |-> AnvilChunkStep(f, path, c, pf.x, pf.z, i)]
        failed  == {i \in live : steps[i].act = "fail"}
        firstFail == CHOOSE i \in failed : \A j \in failed : i <= j
        loaded  == {i \in live : steps[i].act = "load"}
    IN  IF failed # {} THEN Err(steps[firstFail].err)
        ELSE Ok(LoadChunks(r0, SortedSeq(loaded), steps, timestamps))

\* anvil.rs 226-229
SectorsNeeded(compressed_len) ==
    (ChunkDataHeader_SIZE + compressed_len + SECTOR_SIZE - 1) \div SECTOR_SIZE

\* variant: a run of exactly 255 sectors is sent to an external file
NeedsExternal_Inclusive(sectors_needed) == sectors_needed >= MAX_SECTORS

NeedsExternal(sectors_needed) == sectors_needed > MAX_SECTORS

\* variant: the next run starts one sector on, whatever the run's length
NextSector_ByOne(current_sector, n) == current_sector + 1

\* anvil.rs 244, 257: current_sector after a run of n sectors
NextSector(current_sector, n) == current_sector + n

\* one turn of the chunk loop of write_anvil_region (anvil.rs 219-258) for
\* the present slot i.  acc is [loc, sec, current_sector, fs].
AnvilWriteStep(r, dir, i, acc) ==
    LET chunk          == r.chunks[i]
        compressed     == ZlibCompress(chunk.data)
        sectors_needed == SectorsNeeded(compressed.zlen)
        sector         == acc.current_sector
    IN  IF NeedsExternal(sectors_needed)
        THEN LET chunk_x == ChunkX(r.region_x, i)
                 chunk_z == ChunkZ(r.region_z, i)
                 external_path == PathOf(dir, ExternalName(chunk_x, chunk_z))
                 f1 == atomic_write(acc.fs, external_path,
                          [kind |-> "mcc", size |-> compressed.zlen,
                           stream |-> compressed])
                 f2 == set_mtime(f1, external_path, r.mtime)
                 header == ChunkDataHeader_new(1, EXTERNAL_FILE_COMPRESSION_TYPE)
             IN  [loc |-> LocPut(acc.loc, i, ChunkLocation_new(sector, 1)),
                  sec |-> MapPut(acc.sec, sector,
                                 [length |-> header.length, ctype |-> header.ctype,
                                  stream |-> BadStream]),
                  current_sector |-> NextSector(sector, 1),
                  fs |-> f2]
        ELSE LET header == ChunkDataHeader_new(compressed.zlen + 1,
                                               COMPRESSION_TYPE_ZLIB)
             IN  [loc |-> LocPut(acc.loc, i,
                                 ChunkLocation_new(sector, AsU8(sectors_needed))),
                  sec |-> MapPut(acc.sec, sector,
                                 [length |-> header.length, ctype |-> header.ctype,
                                  stream |-> compressed]),
                  current_sector |-> NextSector(sector, sectors_needed),
                  fs |-> acc.fs]

\* result of the chunk loop of write_anvil_region (anvil.rs 218-262) over the
\* present slots idxs in increasing order; absent slots push (0, 0) and
\* change nothing else.
RECURSIVE AnvilWriteLoop(_, _, _, _)
AnvilWriteLoop(r, dir, idxs, acc) ==
    IF idxs = <<>> THEN acc
    ELSE AnvilWriteLoop(r, dir, Tail(idxs), AnvilWriteStep(r, dir, Head(idxs), acc))

\* variant: the timestamp table is left zero
TimestampTable_Zero(timestamps) == VecZeros((SECTOR_SIZE * 2 - SECTOR_SIZE) \div 4)

\* the timestamp table of the written file (anvil.rs 271-274): the whole
\* vector is appended after the location sector, then the buffer is cut or
\* zero-padded to two sectors
TimestampTable(timestamps) ==
    VecResize(timestamps, (SECTOR_SIZE * 2 - SECTOR_SIZE) \div 4)

\* the bytes write_anvil_region assembles (anvil.rs 264-276), w being the
\* result of the chunk loop
anvil_file_data(w, r) ==
    [kind |-> "mca",
     size |-> SECTOR_SIZE * 2 + (w.current_sector - 2) * SECTOR_SIZE,
     loc  |-> w.loc,
     ts   |-> TimestampTable(r.timestamps),
     sec  |-> w.sec]

\* write_anvil_region (anvil.rs 205-289): the file system afterwards
write_anvil_region(f, path, r) ==
    LET w == AnvilWriteLoop(r, path.dir, SortedSeq(DOMAIN r.chunks),
                 [loc |-> EmptyMap, sec |-> EmptyMap, current_sector |-> 2, fs |-> f])
    IN  set_mtime(atomic_write(w.fs, path, anvil_file_data(w, r)), path, r.mtime)

(***************************************************************************)
(* Stream format (linear.rs).  A .linear content is                        *)
(*   size : byte length of the file                                        *)
(*   signature, version, newest_timestamp, compression_level, chunk_count, *)
(*   compressed_size : the header fields decoded from bytes 0..23          *)
(*   footer : the last 8 bytes                                             *)
(*   blob   : the bytes between offset 32 and the footer, as a zstd frame  *)
(* The bytes a frame decodes to are                                        *)
(*   len   : their number                                                  *)
(*   metas : the [size, timestamp] entries of the first 8192 bytes that    *)
(*           are not (0, 0), by slot                                       *)
(*   data  : the bytes after the meta table                                *)
(***************************************************************************)
LinearHeader_new(newest_timestamp, compression_level, chunk_count, compressed_size) ==
    [signature |-> LINEAR_SIGNATURE,
     version |-> LINEAR_VERSION,
     newest_timestamp |-> newest_timestamp,
     compression_level |-> compression_level,
     chunk_count |-> chunk_count,
     compressed_size |-> compressed_size]

\* zstd::bulk::compress
ZstdLen(d) == 13 + Len(d.data)

ZstdCompress(d) == [valid |-> TRUE, zlen |-> ZstdLen(d), content |-> d]

NoContent == [len |-> 0, metas |-> EmptyMap, data |-> <<>>]

ZeroMeta == [size |-> 0, timestamp |-> 0]

BadBlob == [valid |-> FALSE, zlen |-> 5, content |-> NoContent]

\* zstd::bulk::decompress(data, capacity): fails when the output does not
\* fit the capacity
ZstdBulk(blob, capacity) == blob.valid /\ blob.content.len <= capacity

\* zstd::stream::Decoder + io::copy
ZstdStream(blob) == blob.valid

\* decompress_with_retry (linear.rs 11-41)
decompress_with_retry(blob, header) ==
    LET estimated_size == header.chunk_count * 1024 * 16 IN
    IF ZstdBulk(blob, 0) THEN [ok |-> TRUE, data |-> blob.content]
    ELSE IF ZstdBulk(blob, 64 * 1024 * 1024) THEN [ok |-> TRUE, data |-> blob.content]
    ELSE IF ZstdBulk(blob, estimated_size) THEN [ok |-> TRUE, data |-> blob.content]
    ELSE IF ZstdStream(blob) THEN [ok |-> TRUE, data |-> blob.content]
    ELSE [ok |-> FALSE, data |-> NoContent]

RECURSIVE SumSizes(_, _)
SumSizes(metas, idxs) ==
    IF idxs = <<>> THEN 0
    ELSE metas[Head(idxs)].size + SumSizes(metas, Tail(idxs))

\* linear.rs 236, 245: the cursor after a chunk of the given size
NextOffset(chunk_start, size) == chunk_start + size

\* the slot loop of read_linear_region (linear.rs 229-247) over the slots
\* idxs with a non-zero size, in increasing order
RECURSIVE LinearLoadChunks(_, _, _, _, _)
LinearLoadChunks(r, idxs, metas, data, chunk_data_offset) ==
    IF idxs = <<>> THEN r
    ELSE LET i == Head(idxs)
             meta == metas[i]
             chunk_start == chunk_data_offset
             chunk_end == chunk_start + meta.size
             chunk_data == SubSeq(data, chunk_start + 1, chunk_end)
             x == ChunkX(r.region_x, i)
             z == ChunkZ(r.region_z, i)
         IN  LinearLoadChunks(set_chunk(r, i, Chunk_new(chunk_data, x, z), meta.timestamp),
                              Tail(idxs), metas, data, NextOffset(chunk_start, meta.size))

\* linear.rs 161
VersionSupported(version) == version = 1 \/ version = 2

\* linear.rs 224-232: the Region with every slot's timestamp recorded
\* (region.timestamps[i] = meta.timestamp for each of the 1024 entries)
LinearNewRegion(region_x, region_z, mtime, metas) ==
    LET new == Region_new(region_x, region_z)
        stamped == {i \in DOMAIN metas : metas[i].timestamp # 0}
    IN  [new EXCEPT !.mtime = mtime,
                    !.timestamps = [@ EXCEPT !.nz = [i \in stamped |-> metas[i].timestamp]]]

\* read_linear_region (linear.rs 130-255); "panic" is the out-of-order slice
\* at line 187 when the file is shorter than 40 bytes, or the overflow of a
\* chunk coordinate at lines 239-240
read_linear_region(f, path) ==
    LET pf == parse_filename(path.name) IN
    IF ~pf.ok THEN Err(pf.err)
    ELSE IF ~Exists(f, path) THEN Err("Io")
    ELSE
    LET c == f[path].content
        file_size == c.size
        header == c
        footer_start == file_size - 8
        compressed_start == LinearHeader_SIZE + 8
        compressed_end == footer_start
    IN
    IF file_size < LinearHeader_SIZE + 8 THEN Err("InvalidFormat")
    ELSE IF header.signature # LINEAR_SIGNATURE
    THEN [ok |-> FALSE, err |-> "InvalidSignature",
          expected |-> LINEAR_SIGNATURE, found |-> header.signature]
    ELSE IF ~VersionSupported(header.version)
    THEN [ok |-> FALSE, err |-> "UnsupportedVersion", version |-> header.version]
    ELSE IF c.footer # LINEAR_SIGNATURE
    THEN [ok |-> FALSE, err |-> "InvalidSignature",
          expected |-> LINEAR_SIGNATURE, found |-> c.footer]
    ELSE IF compressed_start > compressed_end THEN Err("panic")
    ELSE
    LET dec == decompress_with_retry(c.blob, header) IN
    IF ~dec.ok THEN Err("DecompressionFailed")
    ELSE
    LET decompressed == dec.data
        expected_header_size == CHUNKS_PER_REGION * ChunkMeta_SIZE
    IN
    IF decompressed.len < expected_header_size THEN Err("InvalidFormat")
    ELSE
    LET chunk_metas == decompressed.metas
        real == SortedSeq({i \in DOMAIN chunk_metas : chunk_metas[i].size > 0})
        real_chunk_count == AsU16(Len(real))
        total_chunk_size == SumSizes(chunk_metas, real)
    IN
    IF real_chunk_count # header.chunk_count
    THEN [ok |-> FALSE, err |-> "InvalidChunkCount",
          expected |-> header.chunk_count, found |-> real_chunk_count]
    ELSE IF expected_header_size + total_chunk_size # decompressed.len
    THEN Err("InvalidFormat")
    ELSE IF real # <<>> /\ CoordsPanic(pf.x, pf.z) THEN Err("panic")
    ELSE
    LET r0 == LinearNewRegion(pf.x, pf.z, f[path].mtime.secs, chunk_metas)
    IN  Ok(LinearLoadChunks(r0, real, chunk_metas, decompressed.data, 0))

RECURSIVE ConcatChunks(_, _)
ConcatChunks(r, idxs) ==
    IF idxs = <<>> THEN <<>>
    ELSE r.chunks[Head(idxs)].data \o ConcatChunks(r, Tail(idxs))

RECURSIVE NewestTimestamp(_, _)
NewestTimestamp(r, idxs) ==
    IF idxs = <<>> THEN 0
    ELSE Max(VecGet(r.timestamps, Head(idxs)), NewestTimestamp(r, Tail(idxs)))

\* the bytes write_linear_region assembles (linear.rs 265-314)
linear_file_data(r, compression_level) ==
    LET present == SortedSeq(DOMAIN r.chunks)
        entry(i) == IF has_chunk(r, i)
                    THEN [size |-> Len(r.chunks[i].data),
                          timestamp |-> VecGet(r.timestamps, i)]
                    ELSE [size |-> 0, timestamp |-> VecGet(r.timestamps, i)]
        chunk_metas == [i \in {j \in (DOMAIN r.chunks) \cup (DOMAIN r.timestamps.nz) :
                                  j < CHUNKS_PER_REGION /\ entry(j) # ZeroMeta} |->
                          entry(i)]
        chunk_data == ConcatChunks(r, present)
        chunk_count == AsU16(Len(present))
        decompressed == [len |-> CHUNKS_PER_REGION * ChunkMeta_SIZE + Len(chunk_data),
                         metas |-> chunk_metas,
                         data |-> chunk_data]
        compressed == ZstdCompress(decompressed)
        header == LinearHeader_new(NewestTimestamp(r, present),
                                   ((compression_level + 128) % 256) - 128,
                                   chunk_count, compressed.zlen)
    IN  [kind |-> "linear",
         size |-> LinearHeader_SIZE + 8 + compressed.zlen + 8,
         signature |-> header.signature,
         version |-> header.version,
         newest_timestamp |-> header.newest_timestamp,
         compression_level |-> header.compression_level,
         chunk_count |-> header.chunk_count,
         compressed_size |-> header.compressed_size,
         footer |-> LINEAR_SIGNATURE,
         blob |-> compressed]

\* write_linear_region (linear.rs 257-327): the file system afterwards
write_linear_region(f, path, r, compression_level) ==
    set_mtime(atomic_write(f, path, linear_file_data(r, compression_level)),
              path, r.mtime)

(***************************************************************************)
(* Input files.  A source file is built from an assignment of a variant to *)
(* at most MaxChunks of the candidate slots.                               *)
(***************************************************************************)
CandSlots == {0, 34, 1023}
AbsentSlot == 5
T1 == 1700000000
T2 == 5
RegionCoords == {<<0, 0>>, <<-1, -2>>}
\* a region of each sign, one per build
RegionInputs == {[xz |-> <<0, 0>>, build |-> "release"],
                 [xz |-> <<-1, -2>>, build |-> "debug"]}

SectorsOf(p) ==
    (ChunkDataHeader_SIZE + ZlibLen(p) + SECTOR_SIZE - 1) \div SECTOR_SIZE

\* how a slot of a source .mca file is filled
AnvilVariants ==
    { [fl |-> "inline", p |-> <<>>, t |-> T1],
      [fl |-> "inline", p |-> <<10>>, t |-> T1],
      [fl |-> "inline", p |-> <<10, 0>>, t |-> 0],
      [fl |-> "inline", p |-> <<7>>, t |-> T2],
      [fl |-> "inline", p |-> <<7, 7>>, t |-> T1],
      [fl |-> "inline", p |-> <<8>>, t |-> T2],
      [fl |-> "external", p |-> <<9>>, t |-> T1],
      [fl |-> "external", p |-> <<11>>, t |-> T2],
      [fl |-> "oob", p |-> <<10>>, t |-> T1],
      [fl |-> "cutrun", p |-> <<10>>, t |-> T1],
      [fl |-> "badcode", p |-> <<10>>, t |-> T1],
      [fl |-> "zerooff", p |-> <<10>>, t |-> T1],
      [fl |-> "zerocount", p |-> <<10>>, t |-> T1],
      [fl |-> "truncated", p |-> <<10>>, t |-> T1],
      [fl |-> "missingext", p |-> <<10>>, t |-> T1] }

\* gap: unused sectors before the first run; absent_ts: the timestamp stored
\* for the absent slot AbsentSlot; short: bytes missing from the table area
AnvilStyles ==
    { [gap |-> 0, absent_ts |-> 0, short |-> 0],
      [gap |-> 1, absent_ts |-> T2, short |-> 0],
      [gap |-> 0, absent_ts |-> T2, short |-> 1] }

Assignments(Variants) ==
    UNION { [S -> Variants] : S \in {X \in SUBSET CandSlots : Cardinality(X) <= MaxChunks} }

SectorsUsed(v) ==
    CASE v.fl \in {"inline", "badcode", "cutrun"} -> SectorsOf(v.p)
      [] v.fl \in {"external", "missingext", "truncated"} -> 1
      [] OTHER -> 0

LocOf(v, off) ==
    CASE v.fl \in {"inline", "badcode"} -> [offset |-> off, sector_count |-> SectorsOf(v.p)]
      [] v.fl \in {"external", "missingext", "truncated"} -> [offset |-> off, sector_count |-> 1]
      [] v.fl = "cutrun" -> [offset |-> off, sector_count |-> SectorsOf(v.p) + 3]
      [] v.fl = "oob" -> [offset |-> 5000, sector_count |-> 1]
      [] v.fl = "zerooff" -> [offset |-> 0, sector_count |-> 1]
      [] OTHER -> [offset |-> off, sector_count |-> 0]

RunOf(v) ==
    CASE v.fl \in {"inline", "cutrun"} ->
             [length |-> ZlibLen(v.p) + 1, ctype |-> COMPRESSION_TYPE_ZLIB,
              stream |-> ZlibCompress(v.p)]
      [] v.fl = "badcode" ->
             [length |-> ZlibLen(v.p) + 1, ctype |-> 7, stream |-> ZlibCompress(v.p)]
      [] v.fl = "truncated" ->
             [length |-> ZlibLen(v.p) + 1, ctype |-> COMPRESSION_TYPE_ZLIB,
              stream |-> BadStream]
      [] OTHER ->
             [length |-> 1, ctype |-> EXTERNAL_FILE_COMPRESSION_TYPE,
              stream |-> BadStream]

\* the sector each assigned slot starts at, runs laid out in index order
RECURSIVE Layout(_, _, _)
Layout(a, idxs, off) ==
    IF idxs = <<>> THEN [end |-> off, at |-> << >>]
    ELSE LET i == Head(idxs)
             rest == Layout(a, Tail(idxs), off + SectorsUsed(a[i]))
         IN  [end |-> rest.end,
              at |-> [j \in (DOMAIN rest.at) \cup {i} |->
                         IF j = i THEN off ELSE rest.at[j]]]

TsOf(a, style, i) == IF i \in DOMAIN a THEN a[i].t ELSE style.absent_ts

AnvilSource(a, style) ==
    LET lay == Layout(a, SortedSeq(DOMAIN a), 2 + style.gap)
        starts == {i \in DOMAIN a : SectorsUsed(a[i]) > 0}
    IN  [kind |-> "mca",
         size |-> lay.end * SECTOR_SIZE - style.short,
         loc  |-> [i \in DOMAIN a |-> LocOf(a[i], lay.at[i])],
         ts   |-> [len |-> CHUNKS_PER_REGION,
                   nz  |-> [i \in {j \in (DOMAIN a) \cup {AbsentSlot} : TsOf(a, style, j) # 0} |->
                              TsOf(a, style, i)]],
         sec  |-> [s \in {lay.at[i] : i \in starts} |->
                     RunOf(a[CHOOSE i \in starts : lay.at[i] = s])]]

SrcDir == "src"
DstDir == "dst"

SourceMtime == [secs |-> 1000, nanos |-> 250]

\* the files of the source directory for an .mca source
AnvilSourceFs(a, style, xz) ==
    LET path == PathOf(SrcDir, RegionName(xz[1], xz[2], ExtMca))
        exts == {i \in DOMAIN a : a[i].fl = "external"}
        extPath(i) == PathOf(SrcDir, ExternalName(ChunkX(xz[1], i), ChunkZ(xz[2], i)))
    IN  [q \in {path} \cup {extPath(i) : i \in exts} |->
           IF q = path
           THEN [content |-> AnvilSource(a, style), mtime |-> SourceMtime,
                 synced |-> TRUE]
           ELSE LET i == CHOOSE j \in exts : extPath(j) = q
                IN  [content |-> [kind |-> "mcc", size |-> ZlibLen(a[i].p),
                                  stream |-> ZlibCompress(a[i].p)],
                     mtime |-> SourceMtime, synced |-> TRUE]]

\* how a slot of a source .linear file is filled
LinearVariants ==
    { [p |-> <<10>>, t |-> T1],
      [p |-> <<10, 0>>, t |-> 0],
      [p |-> <<7>>, t |-> T2],
      [p |-> <<8, 1>>, t |-> T1],
      [p |-> <<9>>, t |-> T2] }

OtherSignature == <<194, 255, 19, 24, 60, 202, 157, 154>>
OtherFooter == <<195, 255, 19, 24, 60, 202, 157, 155>>

\* a well-formed stream file: version, and the timestamp of the absent slot
LinearStyles ==
    { [version |-> 1, absent_ts |-> 0],
      [version |-> 2, absent_ts |-> T2] }

\* departures from a well-formed stream file, one per check of the reader:
\* cut (bytes kept of the file, 0 = all), signature, version, footer, zstd
\* frame ("ok", "bad", "short"), header chunk-count excess, trailing bytes
LinearFaults ==
    [cut : {0, 10, 32, 36}, signature : {LINEAR_SIGNATURE, OtherSignature},
     version : {1, 3}, footer : {LINEAR_SIGNATURE, OtherFooter},
     frame : {"ok", "bad", "short"}, count_excess : {0, 1}, extra : {0, 1}]

NoFault ==
    [cut |-> 0, signature |-> LINEAR_SIGNATURE, version |-> 1,
     footer |-> LINEAR_SIGNATURE, frame |-> "ok", count_excess |-> 0, extra |-> 0]

LinearSource(a, style, fault) ==
    LET present == SortedSeq(DOMAIN a)
        RECURSIVE Cat(_)
        Cat(idxs) == IF idxs = <<>> THEN <<>> ELSE a[Head(idxs)].p \o Cat(Tail(idxs))
        data == Cat(present) \o (IF fault.extra = 1 THEN <<0>> ELSE <<>>)
        full == [len |-> CHUNKS_PER_REGION * ChunkMeta_SIZE + Len(data),
                 metas |-> [i \in (DOMAIN a) \cup
                                   (IF style.absent_ts # 0 THEN {AbsentSlot} ELSE {}) |->
                              IF i \in DOMAIN a
                              THEN [size |-> Len(a[i].p), timestamp |-> a[i].t]
                              ELSE [size |-> 0, timestamp |-> style.absent_ts]],
                 data |-> data]
        blob == CASE fault.cut > 0 -> BadBlob
                  [] fault.frame = "ok" -> ZstdCompress(full)
                  [] fault.frame = "short" ->
                       [valid |-> TRUE, zlen |-> 20,
                        content |-> [len |-> 100, metas |-> EmptyMap, data |-> <<>>]]
                  [] OTHER -> BadBlob
        size == IF fault.cut > 0 THEN fault.cut
                ELSE LinearHeader_SIZE + 8 + blob.zlen + 8
    IN  [kind |-> "linear",
         size |-> size,
         signature |-> fault.signature,
         version |-> IF fault.version = 1 THEN style.version ELSE fault.version,
         newest_timestamp |-> 0,
         compression_level |-> 6,
         chunk_count |-> Cardinality(DOMAIN a) + fault.count_excess,
         compressed_size |-> blob.zlen,
         footer |-> fault.footer,
         blob |-> blob]

LinearSourceFs(a, style, fault, xz) ==
    LET path == PathOf(SrcDir, RegionName(xz[1], xz[2], ExtLinear))
    IN  [q \in {path} |->
           [content |-> LinearSource(a, style, fault), mtime |-> SourceMtime,
            synced |-> TRUE]]

\* the assignment the faulty stream files are derived from
FaultBase == [i \in {0, 34} |-> IF i = 0 THEN [p |-> <<10>>, t |-> T1]
                                 ELSE [p |-> <<10, 0>>, t |-> T2]]

(***************************************************************************)
(* The conversion pipeline: a source file is read, the Region is written   *)
(* to the destination directory in either format, the written file is read *)
(* back, and so on, up to MaxOps operations.  trace lists the operations   *)
(* done, cur is the file the last operation read or wrote, first is the    *)
(* Region the first read returned, status is the outcome of the last read. *)
(***************************************************************************)
StatusOk == [ok |-> TRUE]

AwIdle == [pc |-> "idle"]

NoFix == <<>>

LastOp == IF trace = <<>> THEN "none" ELSE trace[Len(trace)]

IsExt(name, ext) == Len(name) > Len(ext) /\ SubSeq(name, Len(name) - Len(ext) + 1, Len(name)) = ext

InitAnvil ==
    \E inp \in RegionInputs, style \in AnvilStyles, a \in Assignments(AnvilVariants) :
        /\ fs = AnvilSourceFs(a, style, inp.xz)
        /\ cur = PathOf(SrcDir, RegionName(inp.xz[1], inp.xz[2], ExtMca))
        /\ build = inp.build

InitLinear ==
    \E inp \in RegionInputs, style \in LinearStyles, a \in Assignments(LinearVariants) :
        /\ fs = LinearSourceFs(a, style, NoFault, inp.xz)
        /\ cur = PathOf(SrcDir, RegionName(inp.xz[1], inp.xz[2], ExtLinear))
        /\ build = inp.build

InitFaulty ==
    \E fault \in LinearFaults :
        /\ fs = LinearSourceFs(FaultBase, [version |-> 2, absent_ts |-> 0], fault, <<0, 0>>)
        /\ cur = PathOf(SrcDir, RegionName(0, 0, ExtLinear))
        /\ build = "release"

Init ==
    /\ InitAnvil \/ InitLinear \/ InitFaulty
    /\ region = NoRegion
    /\ first = NoRegion
    /\ trace = <<>>
    /\ status = StatusOk
    /\ aw = AwIdle
    /\ fix = NoFix

CanRead == /\ Len(trace) < MaxOps
           /\ status.ok
           /\ LastOp \in {"none", "write_anvil", "write_linear"}

CanWrite == /\ Len(trace) < MaxOps
            /\ status.ok
            /\ LastOp \in {"read_anvil", "read_linear"}

AfterRead(res, op) ==
    /\ trace' = Append(trace, op)
    /\ status' = IF res.ok THEN StatusOk ELSE res
    /\ region' = IF res.ok THEN res.region ELSE NoRegion
    /\ first' = IF trace = <<>> /\ res.ok THEN res.region ELSE first
    /\ UNCHANGED <<fs, cur, aw, build, fix>>

ReadAnvil ==
    /\ CanRead
    /\ IsExt(cur.name, ExtMca)
    /\ AfterRead(read_anvil_region(fs, cur), "read_anvil")

ReadLinear ==
    /\ CanRead
    /\ IsExt(cur.name, ExtLinear)
    /\ AfterRead(read_linear_region(fs, cur), "read_linear")

CompressionLevel == 6

WriteAnvil ==
    /\ CanWrite
    /\ LET dest == PathOf(DstDir, with_extension(cur.name, ExtMca))
       IN  /\ fs' = write_anvil_region(fs, dest, region)
           /\ cur' = dest
    /\ trace' = Append(trace, "write_anvil")
    /\ UNCHANGED <<region, first, status, aw, build, fix>>

WriteLinear ==
    /\ CanWrite
    /\ LET dest == PathOf(DstDir, with_extension(cur.name, ExtLinear))
       IN  /\ fs' = write_linear_region(fs, dest, region, CompressionLevel)
           /\ cur' = dest
    /\ trace' = Append(trace, "write_linear")
    /\ UNCHANGED <<region, first, status, aw, build, fix>>

Next == ReadAnvil \/ ReadLinear \/ WriteAnvil \/ WriteLinear

Spec == Init /\ [][Next]_vars

(***************************************************************************)
(* Round trips.                                                            *)
(***************************************************************************)
\* the semantic Region: presence set, payload bytes, timestamp of each of
\* the 1024 slots
SemRegion(r) ==
    [present |-> DOMAIN r.chunks,
     data    |-> [i \in DOMAIN r.chunks |-> r.chunks[i].data],
     ts      |-> [i \in {j \in DOMAIN r.timestamps.nz : j < CHUNKS_PER_REGION} |->
                    r.timestamps.nz[i]]]

IsPrefix(t, full) == Len(t) <= Len(full) /\ t = SubSeq(full, 1, Len(t))

SameFormatAnvil == <<"read_anvil", "write_anvil", "read_anvil">>
SameFormatLinear == <<"read_linear", "write_linear", "read_linear">>
SectorStreamSector ==
    <<"read_anvil", "write_linear", "read_linear", "write_anvil", "read_anvil">>
StreamSectorStream ==
    <<"read_linear", "write_anvil", "read_anvil", "write_linear", "read_linear">>

\* C1: for a file of either format that its reader accepts, reading it,
\* writing the Region back in the same format and reading the written file
\* succeeds and gives the same presence set, the same payload bytes and the
\* same timestamp in each of the 1024 slots as the first read.
C1_SameFormatRoundTrip ==
    trace \in {SameFormatAnvil, SameFormatLinear} =>
        /\ status.ok
        /\ SemRegion(region) = SemRegion(first)

\* C1 witness: a sector-format round trip of a region with two chunks, one
\* of them stored in an external file, and a stream-format one likewise
C1_Witness ==
    /\ trace = SameFormatAnvil
    /\ status.ok
    /\ Cardinality(DOMAIN region.chunks) >= 2
    /\ \E i \in DOMAIN region.chunks : NeedsExternal(SectorsNeeded(ZlibLen(region.chunks[i].data)))
    /\ \E i \in DOMAIN region.timestamps.nz : i < CHUNKS_PER_REGION

\* C2: sector -> stream -> sector succeeds at every step after the first
\* read accepted the file, and the last read gives the semantic Region of
\* the first.
C2_SectorStreamSector ==
    (IsPrefix(trace, SectorStreamSector) /\ Len(trace) >= 2) =>
        /\ status.ok
        /\ (trace = SectorStreamSector => SemRegion(region) = SemRegion(first))

\* C3: stream -> sector -> stream gives the semantic Region of the first
\* read, timestamps of absent slots included.
C3_StreamSectorStream ==
    trace = StreamSectorStream =>
        /\ status.ok
        /\ SemRegion(region) = SemRegion(first)

(***************************************************************************)
(* read_linear_region: order of the checks.                                *)
(***************************************************************************)
RECURSIVE SumOver(_, _)
SumOver(g, S) ==
    IF S = {} THEN 0
    ELSE LET x == CHOOSE y \in S : TRUE IN g[x] + SumOver(g, S \ {x})

\* the bytes between offset 32 and the footer are a zstd frame
FrameDecodes(c) == c.blob.valid

LinearReadErrors ==
    {"InvalidFormat", "InvalidSignature", "UnsupportedVersion", "InvalidChunkCount",
     "DecompressionFailed"}

\* C5: read_linear_region returns a Region or an error; the error is that
\* of the first failing check in the order length < 32, leading signature,
\* version, trailing signature, and, the frame being decoded, decompressed
\* length < 8192, chunk count, payload total; a Region is returned only if
\* all of them pass.
C5_LinearCheckOrder ==
    trace = <<"read_linear">> =>
        LET c == fs[cur].content
            d == c.blob.content
            sized == {i \in DOMAIN d.metas : d.metas[i].size # 0}
            counted == Cardinality(sized)
            total == SumOver([i \in sized |-> d.metas[i].size], sized)
            early == c.size < 32 \/ c.signature # LINEAR_SIGNATURE
                     \/ c.version \notin {1, 2} \/ c.footer # LINEAR_SIGNATURE
            late == d.len < 8192 \/ counted # c.chunk_count \/ 8192 + total # d.len
        IN  /\ status.ok \/ status.err \in LinearReadErrors
            /\ c.size < 32 => status = Err("InvalidFormat")
            /\ (c.size >= 32 /\ c.signature # LINEAR_SIGNATURE) =>
                   status = [ok |-> FALSE, err |-> "InvalidSignature",
                             expected |-> LINEAR_SIGNATURE, found |-> c.signature]
            /\ (c.size >= 32 /\ c.signature = LINEAR_SIGNATURE /\ c.version \notin {1, 2}) =>
                   status = [ok |-> FALSE, err |-> "UnsupportedVersion",
                             version |-> c.version]
            /\ (c.size >= 32 /\ c.signature = LINEAR_SIGNATURE /\ c.version \in {1, 2}
                  /\ c.footer # LINEAR_SIGNATURE) =>
                   status = [ok |-> FALSE, err |-> "InvalidSignature",
                             expected |-> LINEAR_SIGNATURE, found |-> c.footer]
            /\ (~early /\ FrameDecodes(c) /\ d.len < 8192) => status = Err("InvalidFormat")
            /\ (~early /\ FrameDecodes(c) /\ d.len >= 8192 /\ counted # c.chunk_count) =>
                   status = [ok |-> FALSE, err |-> "InvalidChunkCount",
                             expected |-> c.chunk_count, found |-> counted]
            /\ (~early /\ FrameDecodes(c) /\ d.len >= 8192 /\ counted = c.chunk_count
                  /\ 8192 + total # d.len) => status = Err("InvalidFormat")
            /\ status.ok => (~early /\ FrameDecodes(c) /\ ~late)

(***************************************************************************)
(* write_anvil_region: layout of the written file.                         *)
(***************************************************************************)
\* C6: in the file write_anvil_region produces, the present chunks in index
\* order occupy consecutive non-overlapping sector runs from sector 2 on,
\* absent slots have location (0, 0), and the file is 4096 x (2 + sum of
\* the sector counts) bytes long.
C6_AnvilLayout ==
    LastOp = "write_anvil" =>
        LET c == fs[cur].content
            present == DOMAIN region.chunks
            count == [i \in present |-> LocAt(c, i).sector_count]
        IN  /\ \A i \in present :
                  /\ count[i] >= 1
                  /\ LocAt(c, i).offset = 2 + SumOver(count, {j \in present : j < i})
            /\ \A i, j \in present :
                  i < j => LocAt(c, i).offset + count[i] <= LocAt(c, j).offset
            /\ \A i \in Slots \ present : LocAt(c, i) = [offset |-> 0, sector_count |-> 0]
            /\ c.size = 4096 * (2 + SumOver(count, present))
            /\ present = {} => c.size = 8192
            /\ (present = {0} /\ ZlibLen(region.chunks[0].data) < 4000) =>
                   (c.size = 3 * 4096 /\ LocAt(c, 0) = [offset |-> 2, sector_count |-> 1])

\* C6 witness: a written file with two chunks, the first of several sectors
C6_Witness ==
    /\ LastOp = "write_anvil"
    /\ \E i, j \in DOMAIN region.chunks :
          /\ i < j
          /\ LocAt(fs[cur].content, i).sector_count > 1
          /\ LocAt(fs[cur].content, j).offset > 3

\* C7: write_anvil_region stores a chunk inline (code 2, length =
\* compressed_len + 1, ceil((5 + compressed_len) / 4096) sectors) exactly
\* when compressed_len <= 255 x 4096 - 5, and otherwise writes the stream
\* to c.<x>.<z>.mcc and emits a one-sector placeholder (length 1, code 130);
\* every sector count of a present chunk is in 1..255.
C7_InlineOrExternal ==
    LastOp = "write_anvil" =>
        \A i \in DOMAIN region.chunks :
            LET c == fs[cur].content
                data == region.chunks[i].data
                z == ZlibLen(data)
                l == LocAt(c, i)
                run == SectorAt(c, l.offset)
                ext == PathOf(cur.dir,
                          <<"c", ".">> \o FmtI32(region.region_x * 32 + (i % 32))
                          \o <<".">> \o FmtI32(region.region_z * 32 + (i \div 32))
                          \o <<".", "m", "c", "c">>)
            IN  /\ l.sector_count \in 1..255
                /\ IF z <= 255 * 4096 - 5
                   THEN /\ run.ctype = 2
                        /\ run.length = z + 1
                        /\ run.stream = ZlibCompress(data)
                        /\ l.sector_count * 4096 >= 5 + z
                        /\ (l.sector_count - 1) * 4096 < 5 + z
                   ELSE /\ run.ctype = 130
                        /\ run.length = 1
                        /\ l.sector_count = 1
                        /\ Exists(fs, ext)
                        /\ fs[ext].content.stream = ZlibCompress(data)

\* C7 witness: one chunk of exactly 255 sectors stored inline next to one
\* of 256 sectors stored externally
C7_Witness ==
    /\ LastOp = "write_anvil"
    /\ \E i, j \in DOMAIN region.chunks :
          /\ ZlibLen(region.chunks[i].data) = 255 * 4096 - 5
          /\ LocAt(fs[cur].content, i).sector_count = 255
          /\ ZlibLen(region.chunks[j].data) = 255 * 4096 - 4
          /\ SectorAt(fs[cur].content, LocAt(fs[cur].content, j).offset).ctype = 130

(***************************************************************************)
(* read_anvil_region: skipped entries and failures.                        *)
(***************************************************************************)
ExtentEnd(l) == l.offset * 4096 + l.sector_count * 4096

\* the entry's chunk decodes: an inline stream within the bytes the reader
\* hands to zlib, or an external file that exists and holds a stream
Decodable(f, path, c, xz, i) ==
    LET l == c.loc[i]
        run == SectorAt(c, l.offset)
        ext == PathOf(path.dir, ExternalName(xz.x * 32 + (i % 32), xz.z * 32 + (i \div 32)))
    IN  \/ /\ run.ctype = 2
           /\ run.stream.valid
           /\ run.stream.zlen <= Min(run.length, l.sector_count * 4096 - 5)
        \/ /\ run.ctype = 130
           /\ Exists(f, ext)
           /\ f[ext].content.stream.valid

\* C8 as claimed: entries whose extent exceeds the file are skipped and all
\* other entries are loaded; an in-bounds entry with a code other than 2 and
\* 130 makes the read fail with InvalidFormat; so does a file shorter than
\* 8192 bytes.
C8_AsClaimed ==
    trace = <<"read_anvil">> =>
        LET c == fs[cur].content
            entries == DOMAIN c.loc
            inb == {i \in entries : ExtentEnd(c.loc[i]) <= c.size}
            badcode == {i \in inb : SectorAt(c, c.loc[i].offset).ctype \notin {2, 130}}
        IN  IF c.size < 8192 THEN status = Err("InvalidFormat")
            ELSE IF badcode # {} THEN status = Err("InvalidFormat")
            ELSE status.ok => DOMAIN region.chunks = inb

\* C8 amended: entries with offset 0, with count 0 or with an extent beyond
\* the file are skipped, and a Region that is returned holds exactly the
\* other entries; an entry that is not skipped and has a code other than 2
\* and 130 makes the read fail, with InvalidFormat unless a slot before it
\* holds an entry that is not skipped and does not decode; a file shorter
\* than 8192 bytes fails with InvalidFormat.
C8_SkipAndFail ==
    trace = <<"read_anvil">> =>
        LET c == fs[cur].content
            xz == parse_filename(cur.name)
            entries == DOMAIN c.loc
            kept == {i \in entries : /\ c.loc[i].offset # 0
                                     /\ c.loc[i].sector_count # 0
                                     /\ ExtentEnd(c.loc[i]) <= c.size}
            badcode == {i \in kept : SectorAt(c, c.loc[i].offset).ctype \notin {2, 130}}
            undec == {i \in kept \ badcode : ~Decodable(fs, cur, c, xz, i)}
        IN  IF c.size < 8192 THEN status = Err("InvalidFormat")
            ELSE IF badcode # {}
            THEN /\ ~status.ok
                 /\ (status.err = "InvalidFormat") <=>
                        (\A j \in undec : \E b \in badcode : b < j)
            ELSE /\ status.ok => DOMAIN region.chunks = kept
                 /\ undec = {} => status.ok

\* C8 witness: a file with an entry beyond the end that is skipped and a
\* chunk that is loaded
C8_Witness ==
    /\ trace = <<"read_anvil">>
    /\ status.ok
    /\ region.chunks # EmptyMap
    /\ \E i \in DOMAIN fs[cur].content.loc :
          /\ fs[cur].content.loc[i].offset # 0
          /\ ExtentEnd(fs[cur].content.loc[i]) > fs[cur].content.size

(***************************************************************************)
(* Chunk coordinates.                                                      *)
(***************************************************************************)
\* v = r x 32, computed within 32-bit integers
\* v = r x 32, computed without leaving 32-bit integers
IsTimes32(v, r) == v % 32 = 0 /\ v \div 32 = r

\* C9: in every Region a reader returns, the chunk stored at index i has
\* the coordinates (region_x x 32 + i mod 32, region_z x 32 + i div 32),
\* region_x and region_z being the coordinates parsed from the file name.
C9_ChunkCoordinates ==
    (LastOp \in {"read_anvil", "read_linear"} /\ status.ok) =>
        LET xz == parse_filename(cur.name)
        IN  /\ xz.ok
            /\ region.region_x = xz.x
            /\ region.region_z = xz.z
            /\ \A i \in DOMAIN region.chunks :
                  /\ IsTimes32(region.chunks[i].x - (i % 32), xz.x)
                  /\ IsTimes32(region.chunks[i].z - (i \div 32), xz.z)

\* the readers on files whose names carry region coordinates of either
\* sign and coordinates whose product with 32 leaves the i32 range, in each
\* build
CoordCases == {<<-1, -2>>, <<TwoTo26, (0 - TwoTo26) - 1>>}

CoordVariants == {v \in AnvilVariants : v.fl \in {"inline", "external"} /\ v.t = T1}

InitCoords ==
    /\ \E xz \in CoordCases :
          \/ \E a \in Assignments(CoordVariants) :
                /\ fs = AnvilSourceFs(a, [gap |-> 0, absent_ts |-> 0, short |-> 0], xz)
                /\ cur = PathOf(SrcDir, RegionName(xz[1], xz[2], ExtMca))
          \/ \E a \in Assignments(LinearVariants) :
                /\ fs = LinearSourceFs(a, [version |-> 1, absent_ts |-> 0], NoFault, xz)
                /\ cur = PathOf(SrcDir, RegionName(xz[1], xz[2], ExtLinear))
    /\ build \in Builds
    /\ region = NoRegion
    /\ first = NoRegion
    /\ trace = <<>>
    /\ status = StatusOk
    /\ aw = AwIdle
    /\ fix = NoFix

NextCoords == ReadAnvil \/ ReadLinear

SpecCoords == InitCoords /\ [][NextCoords]_vars

(***************************************************************************)
(* io_utils::atomic_write step by step (lib.rs 237-256), with the failure  *)
(* of any call and a crash of the machine at any point.  aw holds the      *)
(* position in the function, its arguments, the file that was at the final *)
(* path before the call, and the calls that have succeeded.                *)
(***************************************************************************)
MaxData == 2

DataBytes == {1, 2}
SeqsUpTo(n) == UNION { [1..k -> DataBytes] : k \in 1..n }

OldContents == {<<9>>, <<9, 1, 2>>}

AtomicPaths ==
    { PathOf(DstDir, RegionName(0, 0, ExtMca)),
      PathOf(DstDir, RegionName(-1, -2, ExtLinear)),
      PathOf(DstDir, ExternalName(31, -64)) }

OldFile(content) == [content |-> content, mtime |-> SourceMtime, synced |-> TRUE]

InitAtomic ==
    /\ \E path \in AtomicPaths, data \in SeqsUpTo(MaxData),
          old \in {<<>>} \cup OldContents, stale \in BOOLEAN :
          LET f0 == IF old = <<>> THEN EmptyMap
                    ELSE PutFile(EmptyMap, path, OldFile(old))
              left == PathOf(path.dir, with_extension(path.name, ExtTmp))
              f1 == IF stale THEN PutFile(f0, left, OldFile(<<7, 7, 7>>))
                    ELSE f0
          IN  /\ fs = f1
              /\ aw = [pc |-> "start", path |-> path, data |-> data,
                       old |-> old, done |-> <<>>]
              /\ cur = path
    /\ build \in Builds
    /\ region = NoRegion
    /\ first = NoRegion
    /\ trace = <<>>
    /\ status = StatusOk
    /\ fix = NoFix

AwStep(from, to, call, f) ==
    /\ aw.pc = from
    /\ aw' = [aw EXCEPT !.pc = to, !.done = Append(@, call)]
    /\ fs' = f
    /\ UNCHANGED <<region, first, trace, status, cur, build, fix>>

\* OpenOptions::new().write(true).create(true).truncate(true).open(&temp_path)
AwOpen ==
    AwStep("start", "opened", "open",
           PutFile(fs, TempPath(aw.path),
                   [content |-> <<>>, mtime |-> NowTime, synced |-> FALSE]))

\* file.write_all(data): the BufWriter passes some prefix on to the file
AwWriteAll ==
    \E k \in 0..Len(aw.data) :
        AwStep("opened", "written", "write_all",
               [fs EXCEPT ![TempPath(aw.path)].content = SubSeq(aw.data, 1, k)])

\* file.flush()
AwFlush ==
    AwStep("written", "flushed", "flush",
           [fs EXCEPT ![TempPath(aw.path)].content = aw.data])

\* file.into_inner()?.sync_all()
AwSyncAll ==
    AwStep("flushed", "synced", "sync_all",
           [fs EXCEPT ![TempPath(aw.path)].synced = TRUE])

\* std::fs::rename(temp_path, path)
AwRename ==
    AwStep("synced", "renamed", "rename",
           PutFile(RemoveFile(fs, TempPath(aw.path)), aw.path, fs[TempPath(aw.path)]))

\* Ok(())
AwReturn ==
    /\ aw.pc = "renamed"
    /\ aw' = [aw EXCEPT !.pc = "done"]
    /\ UNCHANGED <<fs, region, first, trace, status, cur, build, fix>>

\* the ? of the call about to run: the function returns the error
AwFail ==
    /\ aw.pc \in {"start", "opened", "written", "flushed", "synced"}
    /\ aw' = [aw EXCEPT !.pc = "failed"]
    /\ status' = Err("Io")
    /\ UNCHANGED <<fs, region, first, trace, cur, build, fix>>

\* the machine stops: a file that was not synced keeps some prefix of its
\* bytes
AwCrash ==
    /\ aw.pc \in {"start", "opened", "written", "flushed", "synced", "renamed"}
    /\ \E k \in 0..MaxData :
          fs' = [q \in DOMAIN fs |->
                    IF fs[q].synced THEN fs[q]
                    ELSE [fs[q] EXCEPT !.content = SubSeq(@, 1, Min(k, Len(@)))]]
    /\ aw' = [aw EXCEPT !.pc = "crashed"]
    /\ UNCHANGED <<region, first, trace, status, cur, build, fix>>

NextAtomic ==
    AwOpen \/ AwWriteAll \/ AwFlush \/ AwSyncAll \/ AwRename \/ AwReturn
    \/ AwFail \/ AwCrash

SpecAtomic == InitAtomic /\ [][NextAtomic]_vars

\* C4: at every step of atomic_write and after a crash at any step, the
\* final path shows the complete previous content (or no file) or the
\* complete new bytes, and it shows something other than the previous
\* state only once the calls open, write_all, flush and sync_all have
\* succeeded in that order.
C4_AtomicReplace ==
    LET shown == IF Exists(fs, aw.path) THEN fs[aw.path].content ELSE <<>>
    IN  /\ shown \in {aw.old, aw.data}
        /\ (Exists(fs, aw.path) /\ aw.old = <<>>) => "rename" \in {aw.done[k] : k \in DOMAIN aw.done}
        /\ (\E k \in DOMAIN aw.done : aw.done[k] = "rename") =>
               aw.done = <<"open", "write_all", "flush", "sync_all", "rename">>
        /\ (\A k \in DOMAIN aw.done : aw.done[k] # "rename") =>
               (IF aw.old = <<>> THEN ~Exists(fs, aw.path)
                ELSE fs[aw.path] = OldFile(aw.old))

\* C4 witness: a crash after write_all passed only part of the bytes on,
\* with a previous file at the final path
C4_Witness ==
    /\ aw.pc = "crashed"
    /\ aw.old # <<>>
    /\ Exists(fs, TempPath(aw.path))
    /\ Len(fs[TempPath(aw.path)].content) < Len(aw.data)
    /\ "write_all" \in {aw.done[k] : k \in DOMAIN aw.done}

(***************************************************************************)
(* Regions under the map operations.  A Region is made by Region::new or   *)
(* by a reader, then changed by up to MaxRegionOps calls.                  *)
(***************************************************************************)
MaxRegionOps == 2

RegionPayloads == {<<>>, <<10>>}
RegionStamps == {0, T1}
RegionChunkCoords ==
    {<<0, 0>>, <<-1, -1>>, <<33, -31>>, <<-33, 62>>, <<I32_MAX, (0 - I32_MAX) - 1>>}

RegionAssignment == [i \in {0, 34} |-> [fl |-> "inline", p |-> <<10>>, t |-> T1]]

InitRegion ==
    /\ \/ /\ fs = AnvilSourceFs(RegionAssignment, [gap |-> 0, absent_ts |-> T2, short |-> 0],
                                <<-1, -2>>)
          /\ cur = PathOf(SrcDir, RegionName(-1, -2, ExtMca))
       \/ /\ fs = LinearSourceFs(RegionAssignment, [version |-> 1, absent_ts |-> T2],
                                 NoFault, <<-1, -2>>)
          /\ cur = PathOf(SrcDir, RegionName(-1, -2, ExtLinear))
    /\ region = NoRegion
    /\ first = NoRegion
    /\ trace = <<>>
    /\ status = StatusOk
    /\ aw = AwIdle
    /\ fix = NoFix
    /\ build \in Builds

RegStep(r, op) ==
    /\ region' = r
    /\ trace' = Append(trace, op)
    /\ UNCHANGED <<fs, first, status, cur, aw, build, fix>>

RegNew ==
    /\ region = NoRegion
    /\ \E xz \in RegionCoords : RegStep(Region_new(xz[1], xz[2]), "new")

RegReadAnvil ==
    /\ region = NoRegion
    /\ IsExt(cur.name, ExtMca)
    /\ RegStep(read_anvil_region(fs, cur).region, "read_anvil")

RegReadLinear ==
    /\ region = NoRegion
    /\ IsExt(cur.name, ExtLinear)
    /\ RegStep(read_linear_region(fs, cur).region, "read_linear")

CanChange == region # NoRegion /\ Len(trace) <= MaxRegionOps

RegSetChunk ==
    /\ CanChange
    /\ \E i \in CandSlots, p \in RegionPayloads, t \in RegionStamps :
          RegStep(set_chunk(region, i,
                            Chunk_new(p, ChunkX(region.region_x, i), ChunkZ(region.region_z, i)),
                            t),
                  "set_chunk")

RegRemoveChunk ==
    /\ CanChange
    /\ \E i \in CandSlots : RegStep(remove_chunk(region, i), "remove_chunk")

RegSetChunkAt ==
    /\ CanChange
    /\ \E xz \in RegionChunkCoords, p \in RegionPayloads, t \in RegionStamps :
          RegStep(set_chunk_at(region, xz[1], xz[2], Chunk_new(p, xz[1], xz[2]), t),
                  "set_chunk_at")

NextRegion ==
    RegNew \/ RegReadAnvil \/ RegReadLinear \/ RegSetChunk \/ RegRemoveChunk
    \/ RegSetChunkAt

SpecRegion == InitRegion /\ [][NextRegion]_vars

\* C10: every Region made by Region::new or by a reader, and every Region
\* obtained from one by set_chunk, remove_chunk and set_chunk_at, has a
\* timestamp vector of exactly 1024 entries.
C10_TimestampLength ==
    region # NoRegion => region.timestamps.len = 1024

\* C11: in every Region a reader returns, a slot is present only with a
\* payload of at least one byte: no present chunk has a zero-length payload.
C11_PresentIffNonEmpty ==
    (LastOp \in {"read_anvil", "read_linear"} /\ status.ok) =>
        \A i \in DOMAIN region.chunks : region.chunks[i].data # <<>>

(***************************************************************************)
(* convert_region_files: one source file converted into DstDir, run after  *)
(* run, with or without --skip-existing.                                   *)
(***************************************************************************)
MaxRuns == 3

\* the sub-second parts of the source file's modification time
SubSeconds == {0, 250}

\* SystemTime ordering: seconds, then nanoseconds
MtimeLater(a, b) == a.secs > b.secs \/ (a.secs = b.secs /\ a.nanos > b.nanos)

\* str::replace: every occurrence of from, left to right
RECURSIVE replace(_, _, _)
replace(name, from, to) ==
    IF Len(name) < Len(from) THEN name
    ELSE IF SubSeq(name, 1, Len(from)) = from
         THEN to \o replace(SubSeq(name, Len(from) + 1, Len(name)), from, to)
         ELSE <<Head(name)>> \o replace(Tail(name), from, to)

\* convert_region_files.rs 88-104
should_convert_file(f, source_path, dest_path, skip_existing) ==
    IF ~skip_existing THEN TRUE
    ELSE IF ~Exists(f, dest_path) THEN TRUE
    ELSE MtimeLater(f[source_path].mtime, f[dest_path].mtime)

InitConvert ==
    /\ \E nanos \in SubSeconds :
         \/ \E a \in Assignments(AnvilVariants) :
              /\ cur = PathOf(SrcDir, RegionName(0, 0, ExtMca))
              /\ fs = [AnvilSourceFs(a, [gap |-> 0, absent_ts |-> 0, short |-> 0], <<0, 0>>)
                         EXCEPT ![cur].mtime.nanos = nanos]
         \/ \E a \in Assignments(LinearVariants) :
              /\ cur = PathOf(SrcDir, RegionName(0, 0, ExtLinear))
              /\ fs = [LinearSourceFs(a, [version |-> 1, absent_ts |-> 0], NoFault, <<0, 0>>)
                         EXCEPT ![cur].mtime.nanos = nanos]
    /\ build = "release"
    /\ region = NoRegion
    /\ first = NoRegion
    /\ trace = <<>>
    /\ status = StatusOk
    /\ aw = AwIdle
    /\ fix = NoFix

\* convert_single_file (convert_region_files.rs 106-209) on the source file
\* cur; the trace records how the run ended
ConvertSingleFile ==
    /\ Len(trace) < MaxRuns
    /\ \E skip_existing \in BOOLEAN :
        LET mca2linear == IsExt(cur.name, ExtMca)
            dest_filename == IF mca2linear
                             THEN replace(cur.name, <<".">> \o ExtMca, <<".">> \o ExtLinear)
                             ELSE replace(cur.name, <<".">> \o ExtLinear, <<".">> \o ExtMca)
            dest_path == PathOf(DstDir, dest_filename)
            res == IF mca2linear THEN read_anvil_region(fs, cur)
                   ELSE read_linear_region(fs, cur)
        IN  IF ~should_convert_file(fs, cur, dest_path, skip_existing)
               \/ fs[cur].content.size = 0
            THEN /\ trace' = Append(trace, "skipped")
                 /\ UNCHANGED <<fs, region, status>>
            ELSE IF ~res.ok
            THEN /\ trace' = Append(trace, "error")
                 /\ status' = res
                 /\ UNCHANGED <<fs, region>>
            ELSE /\ trace' = Append(trace, IF skip_existing THEN "convert_skip_existing"
                                           ELSE "convert")
                 /\ region' = res.region
                 /\ status' = StatusOk
                 /\ fs' = IF mca2linear
                          THEN write_linear_region(fs, dest_path, res.region, CompressionLevel)
                          ELSE write_anvil_region(fs, dest_path, res.region)
    /\ UNCHANGED <<first, cur, aw, build, fix>>

\* the source file is modified between two runs
TouchSource ==
    /\ Len(trace) < MaxRuns
    /\ LastOp # "touch"
    /\ fs' = [fs EXCEPT ![cur].mtime = NowTime]
    /\ trace' = Append(trace, "touch")
    /\ UNCHANGED <<region, first, status, cur, aw, build, fix>>

NextConvert == ConvertSingleFile \/ TouchSource

SpecConvert == InitConvert /\ [][NextConvert]_vars

\* C20: after a conversion that succeeded, a run with --skip-existing over the
\* unchanged source file skips it, whatever the source's modification time,
\* a non-zero sub-second part included.
C20_SkipExistingSkips ==
    \A k \in 1..(Len(trace) - 1) :
        trace[k] \in {"convert", "convert_skip_existing"} =>
            trace[k + 1] # "convert_skip_existing"

(***************************************************************************)
(* fix_nbt_corruption.  An NBT value is a tag t and a content: a Compound  *)
(* holds a map from keys to values, a List a list of values, an IntArray   *)
(* its ints, a String its str, a number its num; a Double is a num or NaN. *)
(* A chunk payload that fastnbt parses is the byte 10 (TAG_Compound)       *)
(* followed by the encoding of the root compound.                          *)
(***************************************************************************)
Compound(map) == [t |-> "Compound", map |-> map]

List(list) == [t |-> "List", list |-> list]

IntArray(ints) == [t |-> "IntArray", ints |-> ints]

String(str) == [t |-> "String", str |-> str]

\* Byte, Short, Int, Long
Num(t, n) == [t |-> t, num |-> n]

Double(x) == [t |-> "Double", num |-> x, nan |-> FALSE]

NaN == [t |-> "Double", num |-> 0, nan |-> TRUE]

\* HashMap::get followed by a match on the variant
GetAs(map, key, t) == key \in DOMAIN map /\ map[key].t = t

\* Chunk::parse_nbt / nbt::parse_nbt: fastnbt::from_bytes
parse_nbt(data) ==
    IF Len(data) = 2 /\ data[1] = 10 THEN [ok |-> TRUE, nbt |-> data[2]]
    ELSE Err("Failed to parse NBT data")

\* Chunk::from_nbt: fastnbt::to_bytes
Chunk_from_nbt(nbt, x, z) == Chunk_new(<<10, nbt>>, x, z)

FixStats_default ==
    [files_processed |-> 0, chunks_fixed |-> 0, entities_fixed |-> 0,
     enchantments_fixed |-> 0, uuids_regenerated |-> 0, positions_fixed |-> 0]

\* FixStats::merge
merge(self, other) == [k \in DOMAIN self |-> self[k] + other[k]]

\* the condition fix_region_file, fix_chunk and fix_entity test on a FixStats
AnyFixed(stats) ==
    \/ stats.entities_fixed > 0 \/ stats.enchantments_fixed > 0
    \/ stats.uuids_regenerated > 0 \/ stats.positions_fixed > 0

\* the closure has_custom_data of should_delete_entity
has_custom_data(item) ==
    /\ item.t = "Compound"
    /\ GetAs(item.map, "components", "Compound")
    /\ "minecraft:custom_data" \in DOMAIN item.map["components"].map

should_delete_entity(entity) ==
    /\ entity.t = "Compound"
    /\ \/ /\ GetAs(entity.map, "equipment", "Compound")
          /\ \E slot \in DOMAIN entity.map["equipment"].map :
                has_custom_data(entity.map["equipment"].map[slot])
       \/ \E field \in {"ArmorItems", "HandItems"} :
             /\ GetAs(entity.map, field, "List")
             /\ \E k \in DOMAIN entity.map[field].list :
                   has_custom_data(entity.map[field].list[k])

\* fix_enchantment_levels: the map with its zero levels set to 1, and their
\* number
fix_enchantment_levels(enchant_map) ==
    LET zero(level) == level.t \in {"Int", "Short", "Byte"} /\ level.num = 0
    IN  [v |-> [name \in DOMAIN enchant_map |->
                  IF zero(enchant_map[name]) THEN [enchant_map[name] EXCEPT !.num = 1]
                  ELSE enchant_map[name]],
         fixed_count |-> Cardinality({name \in DOMAIN enchant_map : zero(enchant_map[name])})]

\* the loop over an Enchantments list (lines 359-370 and 374-385): the lvl
\* of an element is set to 1 when it is a Short 0
FixLvlList(enchantments) ==
    LET zero(enchant) == /\ enchant.t = "Compound"
                         /\ GetAs(enchant.map, "lvl", "Short")
                         /\ enchant.map["lvl"].num = 0
    IN  [v |-> [k \in DOMAIN enchantments |->
                  IF zero(enchantments[k])
                  THEN [enchantments[k] EXCEPT !.map["lvl"].num = 1]
                  ELSE enchantments[k]],
         fixed_count |-> Cardinality({k \in DOMAIN enchantments : zero(enchantments[k])})]

ViaVersionKey == "VV|Protocol1_20_3To1_20_5"

\* fix_item_enchantments: the item after the fix and the FixStats
fix_item_enchantments(item) ==
    IF item.t # "Compound" THEN [v |-> item, stats |-> FixStats_default]
    ELSE
    LET item_data == item.map
        \* components["minecraft:enchantments"]
        fixEnchants(components) ==
            IF GetAs(components, "minecraft:enchantments", "Compound")
            THEN LET enchant_map == components["minecraft:enchantments"].map
                     inLevels == GetAs(enchant_map, "levels", "Compound")
                     res == IF inLevels THEN fix_enchantment_levels(enchant_map["levels"].map)
                            ELSE fix_enchantment_levels(enchant_map)
                     map2 == IF inLevels
                             THEN [enchant_map EXCEPT !["levels"].map = res.v]
                             ELSE res.v
                 IN  [v |-> [components EXCEPT !["minecraft:enchantments"].map = map2],
                      fixed_count |-> res.fixed_count]
            ELSE [v |-> components, fixed_count |-> 0]
        \* components["minecraft:custom_data"]
        fixCustom(components) ==
            IF GetAs(components, "minecraft:custom_data", "Compound")
            THEN LET custom_data == components["minecraft:custom_data"].map
                     removed == ViaVersionKey \in DOMAIN custom_data
                     cd1 == [k \in (DOMAIN custom_data) \ {ViaVersionKey} |-> custom_data[k]]
                     inList == GetAs(cd1, "Enchantments", "List")
                     res == IF inList THEN FixLvlList(cd1["Enchantments"].list)
                            ELSE [v |-> <<>>, fixed_count |-> 0]
                     cd2 == IF inList THEN [cd1 EXCEPT !["Enchantments"].list = res.v] ELSE cd1
                 IN  [v |-> [components EXCEPT !["minecraft:custom_data"].map = cd2],
                      fixed_count |-> (IF removed THEN 1 ELSE 0) + res.fixed_count]
            ELSE [v |-> components, fixed_count |-> 0]
        hasComponents == GetAs(item_data, "components", "Compound")
        c1 == IF hasComponents THEN fixEnchants(item_data["components"].map)
              ELSE [v |-> << >>, fixed_count |-> 0]
        c2 == IF hasComponents THEN fixCustom(c1.v) ELSE [v |-> << >>, fixed_count |-> 0]
        d1 == IF hasComponents THEN [item_data EXCEPT !["components"].map = c2.v]
              ELSE item_data
        inTop == GetAs(d1, "Enchantments", "List")
        top == IF inTop THEN FixLvlList(d1["Enchantments"].list)
               ELSE [v |-> <<>>, fixed_count |-> 0]
        d2 == IF inTop THEN [d1 EXCEPT !["Enchantments"].list = top.v] ELSE d1
    IN  [v |-> Compound(d2),
         stats |-> [FixStats_default EXCEPT
                      !.enchantments_fixed = c1.fixed_count + c2.fixed_count + top.fixed_count]]

\* the slots fix_items_enchantments visits in an equipment compound
EquipmentSlots == {"head", "chest", "legs", "feet", "mainhand", "offhand"}

\* fix_items_enchantments: an equipment compound or a list of items
fix_items_enchantments(items) ==
    LET content == CASE items.t = "Compound" -> items.map
                     [] items.t = "List" -> items.list
                     [] OTHER -> << >>
        visited == IF items.t = "Compound" THEN (DOMAIN content) \cap EquipmentSlots
                   ELSE DOMAIN content
        res == [k \in visited |-> fix_item_enchantments(content[k])]
        fixed == [k \in DOMAIN content |-> IF k \in visited THEN res[k].v ELSE content[k]]
        RECURSIVE Total(_)
        Total(ks) == IF ks = {} THEN FixStats_default
                     ELSE LET k == CHOOSE x \in ks : TRUE
                          IN  merge(Total(ks \ {k}), res[k].stats)
    IN  [v |-> CASE items.t = "Compound" -> Compound(fixed)
                 [] items.t = "List" -> List(fixed)
                 [] OTHER -> items,
         stats |-> Total(visited)]

(***************************************************************************)
(* UUIDs.  A 128-bit value is its four 32-bit words, most significant      *)
(* first, each written as the i32 with the same bits; the text of a UUID is*)
(* a format and the value it spells.                                       *)
(***************************************************************************)
\* Uuid::from_u128 of lines 429-434: `arr[k] as u128` sign-extends, so the
\* one bits of a negative element fill every more significant word
Uuid_from_IntArray(arr) ==
    << IF arr[2] < 0 \/ arr[3] < 0 \/ arr[4] < 0 THEN -1 ELSE arr[1],
       IF arr[3] < 0 \/ arr[4] < 0 THEN -1 ELSE arr[2],
       IF arr[4] < 0 THEN -1 ELSE arr[3],
       arr[4] >>

\* Uuid::to_string: lower-case hyphenated
Uuid_to_string(uuid) == [fmt |-> "hyphenated", value |-> uuid]

\* lines 447-451: (uuid_u128 >> 96) as i32, ..., uuid_u128 as i32
IntArray_from_Uuid(uuid) == <<uuid[1], uuid[2], uuid[3], uuid[4]>>

\* values Uuid::new_v4 can return: version nibble 4 in the second word
\* (16384 = 0x00004000), variant bits 10 at the top of the third word
NewUuids ==
    { <<7, 16384, 0 - I32_MAX, 9>>, <<8, 16384 + 1, 0 - I32_MAX + 1, 0 - 3>> }

\* fix_entity_uuid; new_uuid is the value Uuid::new_v4 returns if called
fix_entity_uuid(uuid_value, used_uuids, new_uuid) ==
    LET keyed == \/ uuid_value.t = "String"
                 \/ uuid_value.t = "IntArray" /\ Len(uuid_value.ints) = 4
        uuid_str == IF uuid_value.t = "String" THEN uuid_value.str
                    ELSE Uuid_to_string(Uuid_from_IntArray(uuid_value.ints))
        new_uuid_str == Uuid_to_string(new_uuid)
    IN  IF ~keyed THEN [v |-> uuid_value, used |-> used_uuids, regenerated |-> 0]
        ELSE IF uuid_str \in used_uuids
        THEN [v |-> IF uuid_value.t = "String" THEN String(new_uuid_str)
                    ELSE IntArray(IntArray_from_Uuid(new_uuid)),
              used |-> used_uuids \cup {new_uuid_str},
              regenerated |-> 1]
        ELSE [v |-> uuid_value, used |-> used_uuids \cup {uuid_str}, regenerated |-> 0]

\* chunk * 16 leaves the i32 range
TwoTo27 == 134217728
Mul16Overflows(c) == c >= TwoTo27 \/ c < 0 - TwoTo27

\* chunk * 16 wrapped to 32 bits (two's complement)
I32Mul16(c) ==
    LET low == c % (2 * TwoTo27)
    IN  IF low < TwoTo27 THEN low * 16 ELSE (low - 2 * TwoTo27) * 16

\* chunk + 1 wrapped to 32 bits
I32Succ(c) == IF c = I32_MAX THEN (0 - I32_MAX) - 1 ELSE c + 1

\* fix_entity_position; the four bounds are computed first, in i32
fix_entity_position(pos, chunk_x, chunk_z, bld) ==
    IF ~(pos.t = "List" /\ Len(pos.list) >= 3)
    THEN [v |-> pos, stats |-> FixStats_default, panic |-> FALSE]
    ELSE
    LET overflow(c) == Mul16Overflows(c) \/ c = I32_MAX \/ Mul16Overflows(I32Succ(c))
        expected_min_x == I32Mul16(chunk_x)
        expected_max_x == I32Mul16(I32Succ(chunk_x))
        expected_min_z == I32Mul16(chunk_z)
        expected_max_z == I32Mul16(I32Succ(chunk_z))
        \* `*x < min || *x >= max` on an f64: both comparisons are false for NaN
        outside(c, min, max) == c.t = "Double" /\ ~c.nan /\ (c.num < min \/ c.num >= max)
        fix_x == outside(pos.list[1], expected_min_x, expected_max_x)
        fix_z == outside(pos.list[3], expected_min_z, expected_max_z)
        coords == [k \in DOMAIN pos.list |->
                     CASE k = 1 /\ fix_x -> Double(expected_min_x + 8)
                       [] k = 3 /\ fix_z -> Double(expected_min_z + 8)
                       [] OTHER -> pos.list[k]]
    IN  IF bld = "debug" /\ (overflow(chunk_x) \/ overflow(chunk_z))
        THEN [v |-> pos, stats |-> FixStats_default, panic |-> TRUE]
        ELSE [v |-> List(coords),
              stats |-> [FixStats_default EXCEPT
                           !.positions_fixed = IF fix_x \/ fix_z THEN 1 ELSE 0],
              panic |-> FALSE]

\* fix_entity, and the loops `for entity in entities` (fix_chunk 237-244)
\* and `for passenger in passengers` (296-305).  used is the set used_uuids,
\* rnd the values the coming calls of Uuid::new_v4 return; both are handed
\* on with the result.
RECURSIVE fix_entity(_, _, _, _, _, _)
RECURSIVE FixEntities(_, _, _, _, _, _)
fix_entity(entity, chunk_x, chunk_z, used, rnd, bld) ==
    IF entity.t # "Compound"
    THEN [v |-> entity, used |-> used, rnd |-> rnd, stats |-> FixStats_default,
          panic |-> FALSE]
    ELSE
    \* st is the entity under repair: entity_data (d), used_uuids, the coming
    \* values of Uuid::new_v4, the FixStats so far, and whether a debug build
    \* has panicked
    LET \* lines 262-270: "equipment", "ArmorItems", "HandItems"
        items_field(st, field) ==
            IF field \in DOMAIN st.d
            THEN LET with(r) == [st EXCEPT !.d[field] = r.v,
                                           !.stats = merge(@, r.stats)]
                 IN  with(fix_items_enchantments(st.d[field]))
            ELSE st
        \* lines 272-278: "Item"
        item_field(st) ==
            IF "Item" \in DOMAIN st.d
            THEN LET with(r) == [st EXCEPT !.d["Item"] = r.v,
                                           !.stats = merge(@, r.stats)]
                 IN  with(fix_item_enchantments(st.d["Item"]))
            ELSE st
        \* lines 280-286: "UUID"
        uuid_field(st) ==
            IF "UUID" \in DOMAIN st.d
            THEN LET with(r) ==
                         [st EXCEPT !.d["UUID"] = r.v,
                                    !.used = r.used,
                                    !.rnd = IF r.regenerated > 0 THEN Tail(@) ELSE @,
                                    !.stats = merge(@, [FixStats_default EXCEPT
                                                          !.uuids_regenerated =
                                                              r.regenerated])]
                 IN  with(fix_entity_uuid(st.d["UUID"], st.used, Head(st.rnd)))
            ELSE st
        \* lines 288-294: "Pos"
        pos_field(st) ==
            IF "Pos" \in DOMAIN st.d
            THEN LET with(r) == [st EXCEPT !.d["Pos"] = r.v,
                                           !.stats = merge(@, r.stats),
                                           !.panic = @ \/ r.panic]
                 IN  with(fix_entity_position(st.d["Pos"], chunk_x, chunk_z, bld))
            ELSE st
        \* lines 296-305: "Passengers"
        passengers_field(st) ==
            IF GetAs(st.d, "Passengers", "List")
            THEN LET with(r) == [st EXCEPT !.d["Passengers"].list = r.v,
                                           !.used = r.used,
                                           !.rnd = r.rnd,
                                           !.stats = merge(@, r.stats),
                                           !.panic = @ \/ r.panic]
                 IN  with(FixEntities(st.d["Passengers"].list, chunk_x, chunk_z,
                                      st.used, st.rnd, bld))
            ELSE st
        \* lines 307-309: each part sets entity_modified when its own counters
        \* are positive
        finish(st) ==
            [v |-> Compound(st.d), used |-> st.used, rnd |-> st.rnd,
             stats |-> IF AnyFixed(st.stats)
                       THEN [st.stats EXCEPT !.entities_fixed = @ + 1]
                       ELSE st.stats,
             panic |-> st.panic]
    IN  finish(passengers_field(pos_field(uuid_field(item_field(
            items_field(items_field(items_field(
                [d |-> entity.map, used |-> used, rnd |-> rnd,
                 stats |-> FixStats_default, panic |-> FALSE],
                "equipment"), "ArmorItems"), "HandItems"))))))

FixEntities(entities, chunk_x, chunk_z, used, rnd, bld) ==
    IF entities = <<>>
    THEN [v |-> <<>>, used |-> used, rnd |-> rnd, stats |-> FixStats_default,
          panic |-> FALSE]
    ELSE LET rest(h) ==
                 LET join(t) == [v |-> <<h.v>> \o t.v, used |-> t.used, rnd |-> t.rnd,
                                 stats |-> merge(h.stats, t.stats),
                                 panic |-> h.panic \/ t.panic]
                 IN  join(FixEntities(Tail(entities), chunk_x, chunk_z,
                                      h.used, h.rnd, bld))
         IN  rest(fix_entity(Head(entities), chunk_x, chunk_z, used, rnd, bld))

\* fix_chunk, lines 226-246: one pass of the loop over "Entities" and
\* "entities"; st is the root compound (v) with used_uuids, the coming
\* values of Uuid::new_v4, the FixStats so far and the panic flag
fix_chunk_entities(st, entities_field, chunk_x, chunk_z, bld) ==
    IF ~GetAs(st.v, entities_field, "List") THEN st
    ELSE LET entities == st.v[entities_field].list
             kept == SelectSeq(entities, LAMBDA e : ~should_delete_entity(e))
             deleted_count == Len(entities) - Len(kept)
             with(res) ==
                 [v |-> [st.v EXCEPT ![entities_field].list = res.v],
                  used |-> res.used, rnd |-> res.rnd,
                  stats |-> merge(merge(st.stats,
                                        [FixStats_default EXCEPT
                                           !.entities_fixed = deleted_count]),
                                  res.stats),
                  panic |-> st.panic \/ res.panic]
         IN  with(FixEntities(kept, chunk_x, chunk_z, st.used, st.rnd, bld))

\* fix_chunk
fix_chunk(chunk, used, rnd, bld) ==
    LET parsed == parse_nbt(chunk.data)
        idle(compound) == [v |-> compound, used |-> used, rnd |-> rnd,
                           stats |-> FixStats_default, panic |-> FALSE]
        \* lines 249-253; modified: deleted_count > 0 or the counters of some
        \* entity positive
        done(st) ==
            [ok |-> TRUE,
             chunk |-> IF AnyFixed(st.stats)
                       THEN Chunk_from_nbt(Compound(st.v), chunk.x, chunk.z)
                       ELSE chunk,
             used |-> st.used, rnd |-> st.rnd, stats |-> st.stats,
             panic |-> st.panic]
    IN  IF ~parsed.ok THEN parsed
        ELSE IF parsed.nbt.t # "Compound"
        THEN [ok |-> TRUE, chunk |-> chunk, used |-> used, rnd |-> rnd,
              stats |-> FixStats_default, panic |-> FALSE]
        ELSE done(fix_chunk_entities(
                      fix_chunk_entities(idle(parsed.nbt.map), "Entities",
                                         chunk.x, chunk.z, bld),
                      "entities", chunk.x, chunk.z, bld))

\* the orders in which region.chunks.values_mut() can yield the chunks of
\* the slots S (a HashMap with a randomly seeded hasher)
Orders(S) ==
    {sq \in [1..Cardinality(S) -> S] : \A a, b \in DOMAIN sq : a # b => sq[a] # sq[b]}

ExtBackup == <<"b", "a", "c", "k", "u", "p">>

\* lines 151-152: file_path.with_extension(format!("{}.backup", ext))
BackupPath(file_path) ==
    PathOf(file_path.dir,
           with_extension(file_path.name,
                          (IF IsExt(file_path.name, ExtMca) THEN ExtMca ELSE ExtLinear)
                          \o <<".">> \o ExtBackup))

\* variant: --dry-run does not hold the write back
WritesBack_DryRunIgnored(region_modified, dry_run) == region_modified

\* line 177: region_modified && !args.dry_run
WritesBack(region_modified, dry_run) == region_modified /\ ~dry_run

\* fix_region_file, lines 165-175: the loop over the chunks, visited in the
\* given order, from the k-th on; st is the Region with used_uuids, the
\* coming values of Uuid::new_v4, the FixStats and region_modified
RECURSIVE fix_region_chunks(_, _, _, _)
fix_region_chunks(st, order, k, bld) ==
    IF k > Len(order) \/ ~st.ok THEN st
    ELSE LET i == order[k]
             step(c) ==
                 IF ~c.ok THEN [st EXCEPT !.ok = FALSE, !.err = c.err]
                 ELSE IF c.panic THEN [st EXCEPT !.ok = FALSE, !.err = "panic"]
                 ELSE fix_region_chunks(
                          [ok |-> TRUE, err |-> "",
                           region |-> [st.region EXCEPT !.chunks[i] = c.chunk],
                           used |-> c.used, rnd |-> c.rnd,
                           stats |-> merge([st.stats EXCEPT !.chunks_fixed =
                                              @ + IF AnyFixed(c.stats) THEN 1 ELSE 0],
                                           c.stats),
                           region_modified |-> st.region_modified \/ AnyFixed(c.stats)],
                          order, k + 1, bld)
         IN  step(fix_chunk(st.region.chunks[i], st.used, st.rnd, bld))

\* fix_region_file, lines 177-191, after the loop ended with end
fix_region_write(f1, file_path, args, before, end) ==
    IF ~end.ok
    THEN [ok |-> FALSE, err |-> end.err, fs |-> f1, before |-> NoRegion,
          region |-> NoRegion, stats |-> FixStats_default]
    ELSE LET output_path == IF args.output # "" THEN PathOf(args.output, file_path.name)
                            ELSE file_path
         IN  [ok |-> TRUE, err |-> "",
              fs |-> IF WritesBack(end.region_modified, args.dry_run)
                     THEN IF IsExt(file_path.name, ExtMca)
                          THEN write_anvil_region(f1, output_path, end.region)
                          ELSE write_linear_region(f1, output_path, end.region, 3)
                     ELSE f1,
              before |-> before, region |-> end.region, stats |-> end.stats]

\* fix_region_file, lines 162-191, after the file was read with result res
fix_region_repair(f1, file_path, args, order, rnd, bld, res) ==
    IF ~res.ok
    THEN [ok |-> FALSE, err |-> res.err, fs |-> f1, before |-> NoRegion,
          region |-> NoRegion, stats |-> FixStats_default]
    ELSE fix_region_write(f1, file_path, args, res.region,
             fix_region_chunks([ok |-> TRUE, err |-> "", region |-> res.region,
                                used |-> {}, rnd |-> rnd,
                                stats |-> [FixStats_default EXCEPT
                                             !.files_processed = 1],
                                region_modified |-> FALSE],
                               order, 1, bld))

\* fix_region_file, lines 156-191, on the file system f1 the backup copy
\* left
fix_region_read(f1, file_path, args, order, rnd, bld) ==
    fix_region_repair(f1, file_path, args, order, rnd, bld,
                      IF IsExt(file_path.name, ExtMca)
                      THEN read_anvil_region(f1, file_path)
                      ELSE read_linear_region(f1, file_path))

\* fix_region_file (146-192) on file_path, the chunks visited in the given
\* order: the file system, the Region as read and as the loop leaves it,
\* and the FixStats
fix_region_file(f, file_path, args, order, rnd, bld) ==
    \* lines 150-154: fs::copy
    fix_region_read(IF args.backup /\ ~args.dry_run
                    THEN PutFile(f, BackupPath(file_path),
                                 [content |-> f[file_path].content, mtime |-> NowTime,
                                  synced |-> FALSE])
                    ELSE f,
                    file_path, args, order, rnd, bld)

(***************************************************************************)
(* Regions to repair.  A scenario is a region, a build and the root        *)
(* compound of each chunk; at most MaxEntities entities carry a UUID.      *)
(***************************************************************************)
MaxEntities == 2
MaxFixRuns == 2

\* UUID fields: two IntArrays that differ in the first word only and hold a
\* negative third word, the texts of two of the values, a short IntArray
UuidValues ==
    { IntArray(<<1, 2, 3, 4>>),
      IntArray(<<1, 2, -3, 4>>),
      IntArray(<<5, 2, -3, 4>>),
      String(Uuid_to_string(<<1, 2, 3, 4>>)),
      String(Uuid_to_string(<<1, 2, -3, 4>>)),
      IntArray(<<1, 2, 3>>) }

\* items: the three layouts of enchantment levels, with and without the
\* ViaVersion key, and an item without components
ItemValues ==
    { Compound("components" :> Compound("minecraft:enchantments" :>
          Compound("levels" :> Compound([sharpness |-> Num("Int", 0),
                                         unbreaking |-> Num("Int", 3)])))),
      Compound("components" :> Compound("minecraft:enchantments" :>
          Compound([sharpness |-> Num("Short", 0), mending |-> Num("Byte", 0),
                    power |-> Num("Long", 0)]))),
      Compound("components" :> Compound("minecraft:custom_data" :>
          Compound((ViaVersionKey :> Compound([v |-> Num("Int", 1)])) @@
                   ("Enchantments" :> List(<<Compound([lvl |-> Num("Short", 0)]),
                                             Compound([lvl |-> Num("Short", 2)])>>))))),
      Compound("components" :> Compound("minecraft:custom_data" :>
          Compound([note |-> Num("Int", 1)]))),
      Compound([id |-> Num("Int", 261),
                Enchantments |-> List(<<Compound([lvl |-> Num("Short", 0)]),
                                        Compound([lvl |-> Num("Int", 0)])>>)]),
      Compound([id |-> Num("Int", 1)]) }

\* where an entity holds an item
ItemPlaces(item) ==
    { Compound([equipment |-> Compound([head |-> item])]),
      Compound([equipment |-> Compound([body |-> item])]),
      Compound([ArmorItems |-> List(<<item>>)]),
      Compound([HandItems |-> List(<<item, item>>)]),
      Compound([Item |-> item]) }

\* Pos fields: inside and outside the chunk of slot 34 of region (0, 0),
\* NaN, a list of two, a list that holds no Double
PosValues ==
    { List(<<Double(x), Double(64), Double(z)>>) : x \in {40, 100}, z \in {20, -50} }
    \cup { List(<<NaN, Double(64), Double(20)>>),
           List(<<Double(100), Double(64), NaN>>),
           List(<<Double(100), Double(64)>>),
           List(<<Num("Int", 100), Num("Int", 64), Num("Int", -50)>>) }

\* a root compound with the given top-level entities
Root(upper, lower) ==
    Compound([Entities |-> List(upper), entities |-> List(lower)])

Scenario(xz, bld, chunks) == [xz |-> xz, build |-> bld, chunks |-> chunks]

UuidScenarios ==
    LET E(u) == Compound([UUID |-> u])
        Seqs == UNION {[1..n -> UuidValues] : n \in 1..MaxEntities}
        rest(sq) == [k \in 1..(Len(sq) - 1) |-> E(sq[k + 1])]
    IN  { Scenario(<<0, 0>>, "release", 0 :> Root([k \in DOMAIN sq |-> E(sq[k])], <<>>)) :
            sq \in Seqs }
        \cup { Scenario(<<0, 0>>, "release",
                        (0 :> Root(<<E(sq[1])>>, <<>>)) @@ (34 :> Root(rest(sq), <<>>))) :
                 sq \in Seqs }
        \cup { Scenario(<<0, 0>>, "release", 0 :> Root(<<E(sq[1])>>, rest(sq))) :
                 sq \in Seqs }
        \cup { Scenario(<<0, 0>>, "release",
                        0 :> Root(<<Compound([UUID |-> sq[1], Passengers |-> List(rest(sq))])>>,
                                  <<>>)) :
                 sq \in Seqs }

ItemScenarios ==
    LET holders == UNION {ItemPlaces(item) : item \in ItemValues}
    IN  { Scenario(<<0, 0>>, "release", 0 :> Root(<<e>>, <<>>)) : e \in holders }
        \cup { Scenario(<<0, 0>>, "release",
                        0 :> Root(<<Compound([id |-> Num("Int", 90)]), e>>, <<e>>)) :
                 e \in holders }
        \cup { Scenario(<<0, 0>>, "release",
                        0 :> Root(<<Compound([Passengers |-> List(<<e>>)])>>, <<>>)) :
                 e \in holders }

\* the region whose last column of chunks has x = 2^27 - 1
FarRegion == <<4194303, 0>>

PosScenarios ==
    { Scenario(w.xz, w.build, w.slot :> Root(<<Compound([Pos |-> pos])>>, <<>>)) :
        pos \in PosValues,
        w \in { [xz |-> <<0, 0>>, build |-> "release", slot |-> 34],
                [xz |-> <<-1, -2>>, build |-> "debug", slot |-> 34],
                [xz |-> FarRegion, build |-> "release", slot |-> 1023],
                [xz |-> FarRegion, build |-> "debug", slot |-> 1023] } }

\* a chunk whose payload is not NBT beside one with two equal UUIDs
BrokenScenarios ==
    { Scenario(<<0, 0>>, "release",
               (0 :> Root(<<Compound([UUID |-> u]), Compound([UUID |-> u])>>, <<>>))
               @@ (34 :> broken)) :
        u \in UuidValues, broken \in {[t |-> "Raw", bytes |-> <<7>>], [t |-> "Raw", bytes |-> <<>>]} }

FixScenarios == UuidScenarios \cup ItemScenarios \cup PosScenarios \cup BrokenScenarios

\* the payload of a chunk of a scenario: the encoding of its root compound,
\* or raw bytes that are not NBT
PayloadOf(root) == IF root.t = "Raw" THEN root.bytes ELSE <<10, root>>

\* the command lines: default, --backup, --dry-run --backup, --output dst
FixArgs ==
    { [backup |-> FALSE, dry_run |-> FALSE, output |-> ""],
      [backup |-> TRUE, dry_run |-> FALSE, output |-> ""],
      [backup |-> TRUE, dry_run |-> TRUE, output |-> ""],
      [backup |-> FALSE, dry_run |-> FALSE, output |-> DstDir] }

InitFix ==
    /\ \E sc \in FixScenarios, linear \in BOOLEAN :
         /\ build = sc.build
         /\ cur = PathOf(SrcDir, RegionName(sc.xz[1], sc.xz[2],
                                            IF linear THEN ExtLinear ELSE ExtMca))
         /\ fs = IF linear
                 THEN LinearSourceFs([i \in DOMAIN sc.chunks |->
                                        [p |-> PayloadOf(sc.chunks[i]), t |-> T1]],
                                     [version |-> 1, absent_ts |-> 0], NoFault, sc.xz)
                 ELSE AnvilSourceFs([i \in DOMAIN sc.chunks |->
                                       [fl |-> "inline", p |-> PayloadOf(sc.chunks[i]),
                                        t |-> T1]],
                                    [gap |-> 0, absent_ts |-> 0, short |-> 0], sc.xz)
    /\ region = NoRegion
    /\ first = NoRegion
    /\ trace = <<>>
    /\ status = StatusOk
    /\ aw = AwIdle
    /\ fix = NoFix

\* one run of fix_region_file on the file cur; the first entity visited is
\* never given a new UUID, so that Uuid::new_v4 is called at most
\* MaxEntities - 1 times
FixRegionFile ==
    /\ Len(fix) < MaxFixRuns
    /\ \E args \in FixArgs, rnd \in [1..(MaxEntities - 1) -> NewUuids] :
         LET slots(r0) == IF r0.ok THEN DOMAIN r0.region.chunks ELSE {}
             run(res) ==
                 /\ fs' = res.fs
                 /\ region' = res.region
                 /\ status' = IF res.ok THEN StatusOk ELSE Err(res.err)
                 /\ fix' = Append(fix, [args |-> args, ok |-> res.ok, files |-> fs,
                                        before |-> res.before, after |-> res.region,
                                        stats |-> res.stats])
         IN  \E order \in Orders(slots(IF IsExt(cur.name, ExtMca)
                                       THEN read_anvil_region(fs, cur)
                                       ELSE read_linear_region(fs, cur))) :
               run(fix_region_file(fs, cur, args, order, rnd, build))
    /\ trace' = Append(trace, "fix")
    /\ UNCHANGED <<first, cur, aw, build>>

NextFix == FixRegionFile

SpecFix == InitFix /\ [][NextFix]_vars

(***************************************************************************)
(* What the repair claims speak of.                                        *)
(***************************************************************************)
\* the entities of a list and, after each, those of its Passengers list
RECURSIVE WithPassengers(_)
WithPassengers(entities) ==
    IF entities = <<>> THEN <<>>
    ELSE LET e == Head(entities)
             riders == IF e.t = "Compound" /\ GetAs(e.map, "Passengers", "List")
                       THEN WithPassengers(e.map["Passengers"].list)
                       ELSE <<>>
         IN  <<e>> \o riders \o WithPassengers(Tail(entities))

\* the top-level entities of a chunk's "Entities" and "entities" lists
TopEntities(chunk) ==
    LET root == parse_nbt(chunk.data).nbt.map
        of(field) == IF GetAs(root, field, "List") THEN root[field].list ELSE <<>>
    IN  of("Entities") \o of("entities")

\* every entity of a Region, chunk by chunk
EntitiesOf(r) ==
    LET RECURSIVE Cat(_)
        Cat(idxs) == IF idxs = <<>> THEN <<>>
                     ELSE WithPassengers(TopEntities(r.chunks[Head(idxs)])) \o Cat(Tail(idxs))
    IN  Cat(SortedSeq(DOMAIN r.chunks))

\* an entity whose UUID field is a String or an IntArray of four
HasUuid(e) ==
    /\ e.t = "Compound"
    /\ "UUID" \in DOMAIN e.map
    /\ \/ e.map["UUID"].t = "String"
       \/ e.map["UUID"].t = "IntArray" /\ Len(e.map["UUID"].ints) = 4

\* the 128-bit value such a field holds: the value its text spells, or the
\* four ints as unsigned 32-bit words, most significant first
UuidOf(e) ==
    IF e.map["UUID"].t = "String" THEN e.map["UUID"].str.value
    ELSE e.map["UUID"].ints

\* the latest run of fix_region_file, once one has returned Ok
Repaired == fix # <<>> /\ fix[Len(fix)].ok

\* C12: a second run of the repair, on the file the first run left, fixes
\* nothing: every fix counter is 0 and every chunk payload is unchanged.
C12_RepairIdempotent ==
    (/\ Len(fix) = 2
     /\ fix[1].ok /\ fix[2].ok
     /\ ~fix[1].args.dry_run /\ fix[1].args.output = "") =>
        /\ ~AnyFixed(fix[2].stats)
        /\ fix[2].stats.chunks_fixed = 0
        /\ fix[2].after = fix[2].before

\* C13: after the repair no two entities of the region, top-level or
\* passengers, hold the same UUID value, whichever representation each uses.
C13_UuidsUnique ==
    Repaired =>
        LET es == EntitiesOf(region)
        IN  \A a, b \in DOMAIN es :
               (a # b /\ HasUuid(es[a]) /\ HasUuid(es[b])) => UuidOf(es[a]) # UuidOf(es[b])

\* the run the latest state of fix records
LastFix == fix[Len(fix)]

\* C14: of the k entities that hold one UUID value the first visited keeps
\* it and k - 1 get a new one, uuids_regenerated grows by k - 1 for each
\* such value, a rewritten field keeps its representation and an entity
\* whose UUID no other entity holds is left unchanged.
C14_DuplicatesRegenerated ==
    (Repaired /\ Len(EntitiesOf(LastFix.before)) = Len(EntitiesOf(region))) =>
        LET old == EntitiesOf(LastFix.before)
            new == EntitiesOf(region)
            carriers == {a \in DOMAIN old : HasUuid(old[a])}
            sharing(a) == {b \in carriers : UuidOf(old[b]) = UuidOf(old[a])}
            values == {UuidOf(old[a]) : a \in carriers}
            kept(a) == new[a].map["UUID"] = old[a].map["UUID"]
        IN  /\ LastFix.stats.uuids_regenerated = Cardinality(carriers) - Cardinality(values)
            /\ \A a \in carriers :
                  /\ new[a].map["UUID"].t = old[a].map["UUID"].t
                  /\ Cardinality({b \in sharing(a) : kept(b)}) = 1
                  /\ sharing(a) = {a} => new[a] = old[a]

\* C15: the canonical UUID of an IntArray [a0, a1, a2, a3] is the value
\* whose words are a0..a3 taken as unsigned, for negative elements too; two
\* IntArrays that differ canonicalise differently; the four Ints written for
\* a regenerated UUID canonicalise to that UUID's string.
C15_IntArrayCanonical ==
    Repaired =>
        LET all == EntitiesOf(LastFix.before) \o EntitiesOf(region)
            arrays == {all[k].map["UUID"].ints :
                         k \in {j \in DOMAIN all :
                                  HasUuid(all[j]) /\ all[j].map["UUID"].t = "IntArray"}}
        IN  /\ \A arr \in arrays : Uuid_from_IntArray(arr) = arr
            /\ \A arr, other \in arrays :
                  arr # other => Uuid_from_IntArray(arr) # Uuid_from_IntArray(other)
            /\ \A new_uuid \in NewUuids :
                  Uuid_to_string(Uuid_from_IntArray(IntArray_from_Uuid(new_uuid)))
                     = Uuid_to_string(new_uuid)

\* the entities of a Region as read that the retain of fix_chunk keeps, and
\* their passengers
Survivors(r) ==
    LET RECURSIVE Cat(_)
        Cat(idxs) ==
            IF idxs = <<>> THEN <<>>
            ELSE WithPassengers(SelectSeq(TopEntities(r.chunks[Head(idxs)]),
                                          LAMBDA e : ~should_delete_entity(e)))
                 \o Cat(Tail(idxs))
    IN  Cat(SortedSeq(DOMAIN r.chunks))

\* C16: after the repair no entity left, top-level or passenger, holds in
\* its equipment, ArmorItems or HandItems an item whose components contain
\* minecraft:custom_data, and entities_fixed counts every entity removed.
C16_CustomDataEntitiesRemoved ==
    Repaired =>
        LET es == EntitiesOf(region)
        IN  /\ \A a \in DOMAIN es : ~should_delete_entity(es[a])
            /\ LastFix.stats.entities_fixed
                  >= Len(EntitiesOf(LastFix.before)) - Len(es)

\* the values of a map, as a sequence
SortedItems(map) ==
    LET RECURSIVE Seqd(_)
        Seqd(ks) == IF ks = {} THEN <<>>
                    ELSE LET k == CHOOSE x \in ks : TRUE
                         IN  <<map[k]>> \o Seqd(ks \ {k})
    IN  Seqd(DOMAIN map)

\* the items of an entity: every slot of equipment, ArmorItems, HandItems,
\* Item
ItemsOf(e) ==
    LET d == e.map
        slots == IF GetAs(d, "equipment", "Compound")
                 THEN SortedItems(d["equipment"].map) ELSE <<>>
        of(field) == IF GetAs(d, field, "List") THEN d[field].list ELSE <<>>
    IN  slots \o of("ArmorItems") \o of("HandItems")
        \o (IF "Item" \in DOMAIN d THEN <<d["Item"]>> ELSE <<>>)

\* the enchantment levels of an item that are 0, in the three layouts, and
\* the ViaVersion keys of its custom_data
Defects(item) ==
    LET zeros(map) == Cardinality({k \in DOMAIN map :
                         map[k].t \in {"Int", "Short", "Byte"} /\ map[k].num = 0})
        zeroLvls(list) == Cardinality({k \in DOMAIN list :
                             /\ list[k].t = "Compound"
                             /\ GetAs(list[k].map, "lvl", "Short")
                             /\ list[k].map["lvl"].num = 0})
        comps == IF item.t = "Compound" /\ GetAs(item.map, "components", "Compound")
                 THEN item.map["components"].map ELSE << >>
        ench == IF GetAs(comps, "minecraft:enchantments", "Compound")
                THEN comps["minecraft:enchantments"].map ELSE << >>
        custom == IF GetAs(comps, "minecraft:custom_data", "Compound")
                  THEN comps["minecraft:custom_data"].map ELSE << >>
    IN  [levels |-> (IF GetAs(ench, "levels", "Compound")
                     THEN zeros(ench["levels"].map) ELSE zeros(ench))
                    + (IF GetAs(custom, "Enchantments", "List")
                       THEN zeroLvls(custom["Enchantments"].list) ELSE 0)
                    + (IF item.t = "Compound" /\ GetAs(item.map, "Enchantments", "List")
                       THEN zeroLvls(item.map["Enchantments"].list) ELSE 0),
         keys |-> IF ViaVersionKey \in DOMAIN custom THEN 1 ELSE 0]

\* the defects of all items of a sequence of entities
RECURSIVE DefectsOf(_)
DefectsOf(es) ==
    IF es = <<>> THEN 0
    ELSE LET items == IF Head(es).t = "Compound" THEN ItemsOf(Head(es)) ELSE <<>>
             RECURSIVE Sum(_)
             Sum(its) == IF its = <<>> THEN 0
                         ELSE Defects(Head(its)).levels + Defects(Head(its)).keys
                              + Sum(Tail(its))
         IN  Sum(items) + DefectsOf(Tail(es))

\* C17: after the repair no item of a surviving entity (any equipment slot,
\* ArmorItems, HandItems, Item) holds an enchantment level 0 in any of the
\* three layouts or the ViaVersion key, and enchantments_fixed is the number
\* of levels set to 1 plus the number of keys removed.
C17_EnchantmentLevelsFixed ==
    Repaired =>
        /\ DefectsOf(EntitiesOf(region)) = 0
        /\ LastFix.stats.enchantments_fixed = DefectsOf(Survivors(LastFix.before))

\* C18: an entity of chunk (cx, cz) whose Pos is a list of three Doubles
\* keeps x when cx * 16 <= x < (cx + 1) * 16 and gets x = cx * 16 + 8
\* otherwise, the same for z, y is unchanged, and positions_fixed grows by 1
\* exactly when x or z was replaced.
C18_PositionClamped ==
    Repaired =>
        \A i \in DOMAIN region.chunks :
            LET old == WithPassengers(TopEntities(LastFix.before.chunks[i]))
                new == WithPassengers(TopEntities(region.chunks[i]))
                three(e) == /\ e.t = "Compound" /\ GetAs(e.map, "Pos", "List")
                            /\ Len(e.map["Pos"].list) = 3
                            /\ \A k \in 1..3 : e.map["Pos"].list[k].t = "Double"
                \* c * 16 <= v < (c + 1) * 16
                inside(d, c) == ~d.nan /\ d.num \div 16 = c
                centre(d, c) == ~d.nan /\ d.num \div 16 = c /\ d.num % 16 = 8
                right(o, n, c) == IF inside(o, c) THEN n = o ELSE centre(n, c)
            IN  (Len(old) = 1 /\ Len(new) = 1 /\ three(old[1])) =>
                   LET o == old[1].map["Pos"].list
                       n == new[1].map["Pos"].list
                       cx == region.chunks[i].x
                       cz == region.chunks[i].z
                   IN  /\ right(o[1], n[1], cx)
                       /\ n[2] = o[2]
                       /\ right(o[3], n[3], cz)
                       /\ LastFix.stats.positions_fixed =
                             IF inside(o[1], cx) /\ inside(o[3], cz) THEN 0 ELSE 1

\* what C19 says of the chunks of a run: slots, coordinates and timestamps
\* stay, a payload changes only in a chunk counted as fixed, and the
\* entities a chunk keeps are those the retain keeps, in their order, each
\* with the keys and the id it had
ChunksFramed(run) ==
    /\ DOMAIN run.after.chunks = DOMAIN run.before.chunks
    /\ run.after.timestamps = run.before.timestamps
    /\ \A i \in DOMAIN run.after.chunks :
          /\ run.after.chunks[i].x = run.before.chunks[i].x
          /\ run.after.chunks[i].z = run.before.chunks[i].z
    /\ Cardinality({i \in DOMAIN run.after.chunks :
                      run.after.chunks[i].data # run.before.chunks[i].data})
          <= run.stats.chunks_fixed
    /\ \A i \in DOMAIN run.after.chunks :
          LET old == SelectSeq(TopEntities(run.before.chunks[i]),
                               LAMBDA e : ~should_delete_entity(e))
              new == TopEntities(run.after.chunks[i])
          IN  /\ Len(new) = Len(old)
              /\ \A k \in DOMAIN new :
                    /\ DOMAIN new[k].map = DOMAIN old[k].map
                    /\ "id" \in DOMAIN old[k].map => new[k].map["id"] = old[k].map["id"]

\* C19 as claimed: the frame of the chunks, and when no chunk was fixed or
\* --dry-run is set no file is written.
C19_NoFileWritten ==
    \A n \in DOMAIN fix :
        LET run == fix[n]
            after == IF n = Len(fix) THEN fs ELSE fix[n + 1].files
        IN  /\ run.ok => ChunksFramed(run)
            /\ (~run.ok \/ run.stats.chunks_fixed = 0 \/ run.args.dry_run) =>
                  after = run.files

\* C19: the frame of the chunks, and when no chunk was fixed or --dry-run is
\* set no file is written but the copy that --backup without --dry-run
\* makes of the region file.
C19_Frame ==
    \A n \in DOMAIN fix :
        LET run == fix[n]
            after == IF n = Len(fix) THEN fs ELSE fix[n + 1].files
        IN  /\ run.ok => ChunksFramed(run)
            /\ (~run.ok \/ run.stats.chunks_fixed = 0 \/ run.args.dry_run) =>
                  /\ DOMAIN run.files \subseteq DOMAIN after
                  /\ \A q \in DOMAIN after :
                        IF q = BackupPath(cur) /\ run.args.backup /\ ~run.args.dry_run
                        THEN after[q].content = run.files[cur].content
                        ELSE q \in DOMAIN run.files /\ after[q] = run.files[q]

\* C19 witness: a first run that fixes one of two chunks and writes the
\* file, a second run with --backup that fixes nothing and writes the copy
C19_Witness ==
    /\ Len(fix) = 2
    /\ fix[1].ok /\ fix[2].ok
    /\ Cardinality(DOMAIN fix[1].after.chunks) = 2
    /\ fix[1].stats.chunks_fixed = 1
    /\ ~fix[1].args.dry_run
    /\ fix[2].files # fix[1].files
    /\ fix[2].stats.chunks_fixed = 0
    /\ fix[2].args.backup /\ ~fix[2].args.dry_run
    /\ BackupPath(cur) \in DOMAIN fs
    /\ BackupPath(cur) \notin DOMAIN fix[2].files

(***************************************************************************)
(* Region::parse_filename on file names (lib.rs 155-167).  A name is put   *)
(* together from dot-separated parts; cur keeps, beside the path, the      *)
(* parts the name was built from, each with the i32 it spells, if any.     *)
(***************************************************************************)
MaxParts == 4

NamePart(text, int, val) == [text |-> text, int |-> int, val |-> val]

NameParts ==
    { NamePart(<<"r">>, FALSE, 0),
      NamePart(<<>>, FALSE, 0),
      NamePart(<<"-">>, FALSE, 0),
      NamePart(<<"m", "c", "a">>, FALSE, 0),
      NamePart(<<"0">>, TRUE, 0),
      NamePart(<<"-", "1">>, TRUE, -1),
      NamePart(<<"5">>, TRUE, 5),
      NamePart(<<"+", "7">>, TRUE, 7),
      NamePart(<<"2", "1", "4", "7", "4", "8", "3", "6", "4", "7">>, TRUE, I32_MAX),
      NamePart(<<"2", "1", "4", "7", "4", "8", "3", "6", "4", "8">>, FALSE, 0),
      NamePart(<<"-", "2", "1", "4", "7", "4", "8", "3", "6", "4", "8">>, TRUE,
               (0 - I32_MAX) - 1) }

\* the parts joined by dots
RECURSIVE JoinDots(_)
JoinDots(parts) ==
    IF Len(parts) = 1 THEN parts[1].text
    ELSE parts[1].text \o <<".">> \o JoinDots(Tail(parts))

InitNames ==
    /\ \E n \in 1..MaxParts : \E parts \in [1..n -> NameParts] :
          cur = [dir |-> SrcDir, name |-> JoinDots(parts), parts |-> parts]
    /\ fs = << >>
    /\ build = "release"
    /\ region = NoRegion
    /\ first = NoRegion
    /\ trace = <<>>
    /\ status = StatusOk
    /\ aw = AwIdle
    /\ fix = NoFix

\* Region::parse_filename(filename); status takes the result
ParseFilename ==
    /\ trace = <<>>
    /\ status' = parse_filename(cur.name)
    /\ trace' = Append(trace, "parse_filename")
    /\ UNCHANGED <<fs, region, first, cur, aw, build, fix>>

NextNames == ParseFilename

SpecNames == InitNames /\ [][NextNames]_vars

\* C23: parse_filename returns (x, z) exactly when the name has at least
\* three dot-separated parts whose second and third parts spell signed
\* decimal 32-bit integers, and then x and z are those integers; in every
\* other case it fails with the error kind InvalidFormat.
C23_ParseFilename ==
    LastOp = "parse_filename" =>
        LET parts == cur.parts
        IN  IF Len(parts) >= 3 /\ parts[2].int /\ parts[3].int
            THEN status.ok /\ status.x = parts[2].val /\ status.z = parts[3].val
            ELSE ~status.ok /\ status.err = "InvalidFormat"

(***************************************************************************)
(* verify_linear_file (linear.rs 329-359) beside read_linear_region, on    *)
(* well-formed stream files, on the faulty ones and on a missing file.     *)
(* The trace records what verify_linear_file returned.                     *)
(***************************************************************************)
\* variant: the footer is not looked at
verify_linear_file_NoFooter(f, path) ==
    IF ~Exists(f, path) THEN FALSE
    ELSE LET mmap == f[path].content
         IN  IF mmap.size < LinearHeader_SIZE + 8 THEN FALSE
             ELSE IF mmap.signature # LINEAR_SIGNATURE
                     \/ (mmap.version # 1 /\ mmap.version # 2)
             THEN FALSE
             ELSE TRUE

\* verify_linear_file: mmap_file fails on a file that cannot be opened;
\* LinearHeader::from_bytes cannot fail on 24 bytes
verify_linear_file(f, path) ==
    IF ~Exists(f, path) THEN FALSE
    ELSE LET mmap == f[path].content
         IN  IF mmap.size < LinearHeader_SIZE + 8 THEN FALSE
             ELSE IF mmap.signature # LINEAR_SIGNATURE
                     \/ (mmap.version # 1 /\ mmap.version # 2)
             THEN FALSE
             ELSE mmap.footer = LINEAR_SIGNATURE

InitVerify ==
    /\ \/ InitLinear
       \/ InitFaulty
       \/ /\ fs = << >>
          /\ cur = PathOf(SrcDir, RegionName(0, 0, ExtLinear))
          /\ build = "release"
    /\ region = NoRegion
    /\ first = NoRegion
    /\ trace = <<>>
    /\ status = StatusOk
    /\ aw = AwIdle
    /\ fix = NoFix

\* verify_linear_file(cur), before or after the file was read
VerifyLinearFile ==
    /\ LastOp \in {"none", "read_linear"}
    /\ trace' = Append(trace, IF verify_linear_file(fs, cur) THEN "verify_true"
                              ELSE "verify_false")
    /\ UNCHANGED <<fs, region, first, status, cur, aw, build, fix>>

NextVerify == ReadLinear \/ VerifyLinearFile

SpecVerify == InitVerify /\ [][NextVerify]_vars

\* the checks of read_linear_region before decompress_with_retry (linear.rs
\* 148-184) passed: the read succeeded or failed at a later line
PassedPreChecks ==
    \/ status.ok
    \/ status.err \in {"panic", "DecompressionFailed", "InvalidChunkCount"}
    \/ status.err = "InvalidFormat" /\ Exists(fs, cur)
       /\ fs[cur].content.size >= LinearHeader_SIZE + 8

\* C24: verify_linear_file returns true if and only if the file can be
\* opened, has at least 32 bytes, starts with the signature, has version 1
\* or 2 and ends with the signature; these are exactly the files that pass
\* the checks read_linear_region makes before it decompresses, and the
\* payload has no part in the answer.
C24_VerifyLinearFile ==
    LastOp \in {"verify_true", "verify_false"} =>
        /\ LastOp = "verify_true" <=>
              /\ Exists(fs, cur)
              /\ fs[cur].content.size >= 32
              /\ fs[cur].content.signature = LINEAR_SIGNATURE
              /\ fs[cur].content.version \in {1, 2}
              /\ fs[cur].content.footer = LINEAR_SIGNATURE
        /\ Len(trace) = 2 => (LastOp = "verify_true" <=> PassedPreChecks)

\* verify_linear_file answered true for a file that read_linear_region then
\* could not decompress
C24_Witness ==
    /\ trace = <<"read_linear", "verify_true">>
    /\ ~status.ok
    /\ status.err = "DecompressionFailed"

(***************************************************************************)
(* Addressing by chunk coordinates (lib.rs 139-153), under SpecRegion.     *)
(***************************************************************************)
\* C25: get_chunk_at and set_chunk_at address slot (z & 31) * 32 + (x & 31),
\* which equals (z mod 32) * 32 + (x mod 32) with non-negative remainders
\* for negative coordinates too: every chunk of a Region, whether a reader
\* or set_chunk_at stored it, is the chunk get_chunk_at returns for its
\* coordinates, and after set_chunk_at(x, z, c, t) get_chunk_at(x, z) is c
\* and the timestamp of that slot is t.
C25_ChunkAt ==
    /\ [](region # NoRegion =>
            \A i \in DOMAIN region.chunks :
               LET c == region.chunks[i]
               IN  /\ ChunkAtIndex(c.x, c.z) = (c.z % 32) * 32 + (c.x % 32)
                   /\ i = (c.z % 32) * 32 + (c.x % 32)
                   /\ get_chunk_at(region, c.x, c.z) = c)
    /\ [][\A xz \in RegionChunkCoords, p \in RegionPayloads, t \in RegionStamps :
            (/\ LastOp' = "set_chunk_at"
             /\ region' = set_chunk_at(region, xz[1], xz[2],
                                       Chunk_new(p, xz[1], xz[2]), t))
            => /\ get_chunk_at(region', xz[1], xz[2]) = Chunk_new(p, xz[1], xz[2])
               /\ VecGet(region'.timestamps, (xz[2] % 32) * 32 + (xz[1] % 32)) = t]_vars

\* set_chunk_at stored a chunk with negative coordinates beside the chunks
\* a reader stored
C25_Witness ==
    /\ LastOp = "set_chunk_at"
    /\ trace[1] \in {"read_anvil", "read_linear"}
    /\ 1023 \in DOMAIN region.chunks
    /\ region.chunks[1023].x = -1
    /\ region.chunks[1023].z = -1
    /\ 34 \in DOMAIN region.chunks

(***************************************************************************)
(* write_anvil_region turn by turn of its chunk loop (anvil.rs 216-280),   *)
(* on Regions of up to 1024 chunks whose runs are as long as a run can be. *)
(* aw holds the loop's variables: the slot i, the number n of present      *)
(* chunks handled, chunk_locations (loc), sector_data (sec) and            *)
(* current_sector; cur is the path being written.                          *)
(***************************************************************************)
\* the numbers of present chunks
WideCounts == {1, 257, 258, CHUNKS_PER_REGION}

\* the payload of slot i: runs of 255 sectors; external chunks; runs of 1,
\* 255 and 1 (external) sectors in turn; short runs
WidePatterns == {"longest", "external", "mixed", "short"}

WidePayload(pattern, i) ==
    CASE pattern = "longest" -> <<8>>
      [] pattern = "external" -> <<9>>
      [] pattern = "mixed" -> <<7 + (i % 3)>>
      [] OTHER -> <<10>>

\* the Region (0, 0) after set_chunk on each slot of S
WideRegion(S, pattern) ==
    [Region_new(0, 0) EXCEPT
       !.chunks = [i \in S |-> Chunk_new(WidePayload(pattern, i), ChunkX(0, i), ChunkZ(0, i))],
       !.timestamps = [@ EXCEPT !.nz = [i \in S |-> T1]]]

InitWide ==
    /\ \E n \in WideCounts, pattern \in WidePatterns, low \in BOOLEAN :
          region = WideRegion(IF low THEN 0 .. (n - 1)
                              ELSE (CHUNKS_PER_REGION - n) .. (CHUNKS_PER_REGION - 1),
                              pattern)
    /\ fs = << >>
    /\ cur = PathOf(DstDir, RegionName(0, 0, ExtMca))
    /\ build = "release"
    /\ first = NoRegion
    /\ trace = <<>>
    /\ status = StatusOk
    /\ aw = [pc |-> "loop", i |-> 0, n |-> 0, loc |-> EmptyMap, sec |-> EmptyMap,
             current_sector |-> 2]
    /\ fix = NoFix

\* anvil.rs 219-258: slot i holds a chunk
WideChunk ==
    /\ aw.pc = "loop"
    /\ aw.i < CHUNKS_PER_REGION
    /\ aw.i \in DOMAIN region.chunks
    /\ LET after(acc) ==
             /\ aw' = [aw EXCEPT !.i = @ + 1, !.n = @ + 1, !.loc = acc.loc,
                                 !.sec = acc.sec, !.current_sector = acc.current_sector]
             /\ fs' = acc.fs
       IN  after(AnvilWriteStep(region, cur.dir, aw.i,
                    [loc |-> aw.loc, sec |-> aw.sec,
                     current_sector |-> aw.current_sector, fs |-> fs]))
    /\ UNCHANGED <<region, first, trace, status, cur, build, fix>>

\* anvil.rs 259-261: slot i is empty
WideAbsent ==
    /\ aw.pc = "loop"
    /\ aw.i < CHUNKS_PER_REGION
    /\ aw.i \notin DOMAIN region.chunks
    /\ aw' = [aw EXCEPT !.i = @ + 1]
    /\ UNCHANGED <<fs, region, first, trace, status, cur, build, fix>>

\* anvil.rs 264-280: the file is assembled and written
WideFinish ==
    /\ aw.pc = "loop"
    /\ aw.i = CHUNKS_PER_REGION
    /\ fs' = set_mtime(atomic_write(fs, cur, anvil_file_data(aw, region)), cur, region.mtime)
    /\ aw' = [aw EXCEPT !.pc = "written"]
    /\ trace' = Append(trace, "write_anvil")
    /\ UNCHANGED <<region, first, status, cur, build, fix>>

NextWide == WideChunk \/ WideAbsent \/ WideFinish

SpecWide == InitWide /\ [][NextWide]_vars

\* the run of sectors the writer computes for a payload: one sector for an
\* external chunk
RunLength(data) ==
    IF SectorsNeeded(ZlibLen(data)) > 255 THEN 1 ELSE SectorsNeeded(ZlibLen(data))

\* C30: in write_anvil_region no narrowing conversion loses information for
\* a Region of at most 1024 chunks: every sector count is at most 255,
\* every sector offset is at most 2 + 1023 * 255 < 2^24, the location entry
\* pushed for a chunk holds the offset and the count the writer computed,
\* and the written file holds the entries that were pushed.
C30_NoNarrowingLoss ==
    /\ [](/\ 2 + 1023 * 255 < 16777216
          /\ aw.n <= CHUNKS_PER_REGION
          /\ aw.current_sector <= 2 + aw.n * 255)
    /\ [][/\ (aw.pc = "loop" /\ aw'.n = aw.n + 1) =>
                /\ RunLength(region.chunks[aw.i].data) <= 255
                /\ aw.current_sector <= 2 + 1023 * 255
                /\ aw'.current_sector = aw.current_sector + RunLength(region.chunks[aw.i].data)
                /\ aw.i \in DOMAIN aw'.loc
                /\ aw'.loc[aw.i] = [offset |-> aw.current_sector,
                                    sector_count |-> RunLength(region.chunks[aw.i].data)]
          /\ aw'.pc = "written" =>
                /\ DOMAIN fs'[cur].content.loc = DOMAIN region.chunks
                /\ fs'[cur].content.loc = aw.loc]_vars

\* the last of 1024 runs of 255 sectors was written at sector 2 + 1023 * 255
C30_Witness ==
    /\ aw.pc = "written"
    /\ aw.n = 1024
    /\ fs[cur].content.loc[1023] = [offset |-> 2 + 1023 * 255, sector_count |-> 255]

(***************************************************************************)
(* The converter's workers in linear2mca mode, call by call of the file    *)
(* system: each worker reads its source file (read_linear_region) and runs *)
(* write_anvil_region into DstDir, the atomic_write of every external file *)
(* and of the region file as open, write, rename, followed by set_mtime.   *)
(* Per worker w: cur[w] is its source and destination path, region[w] the  *)
(* Region it read, status[w] its result, and aw[w] its position:           *)
(*   pc     : "start", "loop", "open", "write", "rename", "mtime", "done", *)
(*            "failed"                                                     *)
(*   todo   : the present slots still to handle, in increasing order       *)
(*   loc, sec, current_sector : the loop's variables                       *)
(*   target, data : the arguments of the atomic_write in progress          *)
(*   h      : the path at which the file it holds open is found (NoPath    *)
(*            when it holds none, Unlinked when the file was replaced)     *)
(***************************************************************************)
\* a source file name with a further part before the extension
OldName(x, z, ext) ==
    <<"r", ".">> \o FmtI32(x) \o <<".">> \o FmtI32(z) \o <<".", "o", "l", "d", ".">> \o ext

\* the source files of the workers: name, and the payload of each slot
WorkerSources ==
    { [name |-> RegionName(0, 0, ExtLinear),
       a |-> (0 :> [p |-> <<9>>, t |-> T1])],
      [name |-> OldName(0, 0, ExtLinear),
       a |-> (0 :> [p |-> <<9, 1>>, t |-> T2])],
      [name |-> RegionName(1, 0, ExtLinear),
       a |-> (0 :> [p |-> <<9>>, t |-> T1]) @@ (1 :> [p |-> <<10>>, t |-> T1])],
      [name |-> RegionName(0, 1, ExtLinear),
       a |-> (0 :> [p |-> <<10>>, t |-> T2])] }

SourceFile(s) ==
    [content |-> LinearSource(s.a, [version |-> 1, absent_ts |-> 0], NoFault),
     mtime |-> SourceMtime, synced |-> TRUE]

\* convert_region_files.rs 121-130 in linear2mca mode
DestOf(name) == PathOf(DstDir, replace(name, <<".">> \o ExtLinear, <<".">> \o ExtMca))

\* no path; the place of an open file that was replaced at its path
NoPath == [none |-> TRUE]

Unlinked == [unlinked |-> TRUE]

WorkerStart ==
    [pc |-> "start", todo |-> <<>>, loc |-> EmptyMap, sec |-> EmptyMap,
     current_sector |-> 2, target |-> NoPath, data |-> NoPath, h |-> NoPath]

\* the states in which the workers of W are about to convert the files of
\* srcs, old being the files DstDir already holds
InitWorkersWith(W, srcs, old) ==
    /\ fs = [q \in {PathOf(SrcDir, srcs[w].name) : w \in W} |->
               SourceFile(CHOOSE s \in {srcs[w] : w \in W} : PathOf(SrcDir, s.name) = q)]
            @@ old
    /\ cur = [w \in W |-> [source |-> PathOf(SrcDir, srcs[w].name),
                           dest |-> DestOf(srcs[w].name)]]
    /\ region = [w \in W |-> NoRegion]
    /\ status = [w \in W |-> StatusOk]
    /\ aw = [w \in W |-> WorkerStart]
    /\ build = "release"
    /\ first = NoRegion
    /\ trace = <<>>
    /\ fix = NoFix

Workers == {1, 2}

\* two workers on two different source files
InitWorkers ==
    \E srcs \in [Workers -> WorkerSources] :
        /\ srcs[1] # srcs[2]
        /\ InitWorkersWith(Workers, srcs, EmptyMap)

\* the content of a file just created or truncated
EmptyContent(path) ==
    IF IsExt(path.name, ExtMcc) \/ IsExt(path.name, ExtTmp)
    THEN [kind |-> "mcc", size |-> 0, stream |-> BadStream]
    ELSE [kind |-> "mca", size |-> 0, loc |-> EmptyMap, ts |-> VecZeros(0), sec |-> EmptyMap]

\* anvil.rs 230-234: the external file of slot i and its bytes
ExternalPath(r, dir, i) ==
    PathOf(dir, ExternalName(ChunkX(r.region_x, i), ChunkZ(r.region_z, i)))

ExternalData(data) ==
    [kind |-> "mcc", size |-> ZlibLen(data), stream |-> ZlibCompress(data)]

\* the loop's variables after the turn for slot i, the file system apart
AfterTurn(ws, r, dir, i) ==
    LET with(acc) == [ws EXCEPT !.loc = acc.loc, !.sec = acc.sec,
                                !.current_sector = acc.current_sector,
                                !.todo = Tail(@), !.pc = "loop",
                                !.target = NoPath, !.data = NoPath]
    IN  with(AnvilWriteStep(r, dir, i,
                [loc |-> ws.loc, sec |-> ws.sec,
                 current_sector |-> ws.current_sector, fs |-> EmptyMap]))

\* variant: a failed write of an external file is passed over
OnError_SkipExternal(ws, r, dir) ==
    IF ws.target # NoPath /\ IsExt(ws.target.name, ExtMcc)
    THEN [AfterTurn(ws, r, dir, Head(ws.todo)) EXCEPT !.h = NoPath]
    ELSE [ws EXCEPT !.pc = "failed", !.h = NoPath]

\* the ? after a call that returned an error (anvil.rs 234, 235, 278, 280)
OnError(ws, r, dir) == [ws EXCEPT !.pc = "failed", !.h = NoPath]

WorkerUnchanged == UNCHANGED <<cur, first, trace, build, fix>>

\* read_linear_region(source) (convert_region_files.rs 156)
WkRead(w) ==
    /\ aw[w].pc = "start"
    /\ LET done(res) ==
             IF res.ok
             THEN /\ region' = [region EXCEPT ![w] = res.region]
                  /\ aw' = [aw EXCEPT ![w] = [@ EXCEPT !.pc = "loop",
                                 !.todo = SortedSeq(DOMAIN res.region.chunks)]]
                  /\ UNCHANGED status
             ELSE /\ status' = [status EXCEPT ![w] = res]
                  /\ aw' = [aw EXCEPT ![w] = [@ EXCEPT !.pc = "failed"]]
                  /\ UNCHANGED region
       IN  done(read_linear_region(fs, cur[w].source))
    /\ UNCHANGED fs
    /\ WorkerUnchanged

\* anvil.rs 219-229: the next chunk is compressed; a long run starts the
\* atomic_write of its external file, a short one is stored (245-258)
WkChunk(w) ==
    /\ aw[w].pc = "loop"
    /\ aw[w].todo # <<>>
    /\ LET i == Head(aw[w].todo)
           r == region[w]
       IN  IF NeedsExternal(SectorsNeeded(ZlibLen(r.chunks[i].data)))
           THEN aw' = [aw EXCEPT ![w] = [@ EXCEPT !.pc = "open",
                          !.target = ExternalPath(r, cur[w].dest.dir, i),
                          !.data = ExternalData(r.chunks[i].data)]]
           ELSE aw' = [aw EXCEPT ![w] = AfterTurn(@, r, cur[w].dest.dir, i)]
    /\ UNCHANGED <<fs, region, status>>
    /\ WorkerUnchanged

\* anvil.rs 264-278: the file is assembled and its atomic_write starts
WkAssemble(w) ==
    /\ aw[w].pc = "loop"
    /\ aw[w].todo = <<>>
    /\ aw' = [aw EXCEPT ![w] = [@ EXCEPT !.pc = "open", !.target = cur[w].dest,
                                         !.data = anvil_file_data(aw[w], region[w])]]
    /\ UNCHANGED <<fs, region, status>>
    /\ WorkerUnchanged

\* lib.rs 243-247: the temporary file is created, or truncated if it exists
WkOpen(w) ==
    /\ aw[w].pc = "open"
    /\ LET temp_path == TempPath(aw[w].target)
       IN  /\ fs' = IF Exists(fs, temp_path)
                    THEN [fs EXCEPT ![temp_path].content = EmptyContent(temp_path)]
                    ELSE PutFile(fs, temp_path,
                                 [content |-> EmptyContent(temp_path), mtime |-> NowTime,
                                  synced |-> FALSE])
           /\ aw' = [aw EXCEPT ![w] = [@ EXCEPT !.pc = "write", !.h = temp_path]]
    /\ UNCHANGED <<region, status>>
    /\ WorkerUnchanged

\* lib.rs 249-252: write_all, flush, sync_all on the open file, which is
\* then closed
WkWrite(w) ==
    /\ aw[w].pc = "write"
    /\ fs' = IF aw[w].h = Unlinked THEN fs
             ELSE [fs EXCEPT ![aw[w].h].content = aw[w].data, ![aw[w].h].synced = TRUE]
    /\ aw' = [aw EXCEPT ![w] = [@ EXCEPT !.pc = "rename", !.h = NoPath]]
    /\ UNCHANGED <<region, status>>
    /\ WorkerUnchanged

\* where an open file is found after temp_path was renamed to path
HandleAfterRename(h, temp_path, path) ==
    IF h = temp_path THEN path ELSE IF h = path THEN Unlinked ELSE h

\* lib.rs 254: rename(temp_path, path); fails when temp_path is gone
WkRename(w) ==
    /\ aw[w].pc = "rename"
    /\ LET temp_path == TempPath(aw[w].target)
           path == aw[w].target
       IN  IF Exists(fs, temp_path)
           THEN /\ fs' = PutFile(RemoveFile(fs, temp_path), path, fs[temp_path])
                /\ aw' = [v \in DOMAIN aw |->
                            IF v = w THEN [aw[v] EXCEPT !.pc = "mtime"]
                            ELSE [aw[v] EXCEPT !.h = HandleAfterRename(@, temp_path, path)]]
                /\ UNCHANGED status
           ELSE /\ aw' = [aw EXCEPT ![w] = OnError(@, region[w], cur[w].dest.dir)]
                /\ status' = [status EXCEPT ![w] = Err("Io")]
                /\ UNCHANGED fs
    /\ UNCHANGED region
    /\ WorkerUnchanged

\* set_mtime(path, region.mtime) (anvil.rs 235, 280); then the loop goes on
\* (236-244) or the function returns
WkSetMtime(w) ==
    /\ aw[w].pc = "mtime"
    /\ fs' = set_mtime(fs, aw[w].target, region[w].mtime)
    /\ aw' = [aw EXCEPT ![w] =
                 IF aw[w].target = cur[w].dest
                 THEN [@ EXCEPT !.pc = "done"]
                 ELSE AfterTurn(@, region[w], cur[w].dest.dir, Head(aw[w].todo))]
    /\ UNCHANGED <<region, status>>
    /\ WorkerUnchanged

\* a call of the file system returns an error
WkFail(w) ==
    /\ aw[w].pc \in {"open", "write", "rename", "mtime"}
    /\ aw' = [aw EXCEPT ![w] = OnError(@, region[w], cur[w].dest.dir)]
    /\ status' = [status EXCEPT ![w] = IF aw'[w].pc = "failed" THEN Err("Io") ELSE @]
    /\ UNCHANGED <<fs, region>>
    /\ WorkerUnchanged

NextWorkers ==
    \/ \E w \in DOMAIN aw : WkRead(w)
    \/ \E w \in DOMAIN aw : WkChunk(w)
    \/ \E w \in DOMAIN aw : WkAssemble(w)
    \/ \E w \in DOMAIN aw : WkOpen(w)
    \/ \E w \in DOMAIN aw : WkWrite(w)
    \/ \E w \in DOMAIN aw : WkRename(w)
    \/ \E w \in DOMAIN aw : WkSetMtime(w)
    \/ \E w \in DOMAIN aw : WkFail(w)

SpecWorkers == InitWorkers /\ [][NextWorkers]_vars

\* the slots of worker w's Region that go to an external file
ExternalSlots(w) ==
    IF region[w] = NoRegion THEN {}
    ELSE {i \in DOMAIN region[w].chunks :
             NeedsExternal(SectorsNeeded(ZlibLen(region[w].chunks[i].data)))}

\* worker w is inside an atomic_write
Writing(w) == aw[w].pc \in {"open", "write", "rename"}

\* C21: workers that run write_anvil_region at once on different source
\* files into one directory never write the same external file or the same
\* temporary file, and when all have finished every c.<x>.<z>.mcc holds the
\* complete compressed payload of chunk (x, z) of each region file that was
\* written and refers to it.
C21_ExternalFilesDisjoint ==
    /\ \A v \in DOMAIN aw, w \in DOMAIN aw :
          (v # w /\ Writing(v) /\ Writing(w)) =>
              /\ aw[v].target # aw[w].target
              /\ TempPath(aw[v].target) # TempPath(aw[w].target)
    /\ (\A w \in DOMAIN aw : aw[w].pc \in {"done", "failed"}) =>
          \A w \in DOMAIN aw :
              aw[w].pc = "done" =>
                  \A i \in ExternalSlots(w) :
                      /\ Exists(fs, ExternalPath(region[w], cur[w].dest.dir, i))
                      /\ fs[ExternalPath(region[w], cur[w].dest.dir, i)].content
                            = ExternalData(region[w].chunks[i].data)

(***************************************************************************)
(* One call of write_anvil_region, call by call of the file system, into a *)
(* directory that is empty or holds the files of an earlier conversion.    *)
(***************************************************************************)
WriterSources ==
    WorkerSources \cup
    { [name |-> RegionName(-1, -2, ExtLinear),
       a |-> (0 :> [p |-> <<9>>, t |-> T1]) @@ (34 :> [p |-> <<10>>, t |-> T1])
             @@ (1023 :> [p |-> <<9, 1>>, t |-> T2])],
      [name |-> RegionName(0, 2, ExtLinear),
       a |-> (0 :> [p |-> <<8>>, t |-> T1]) @@ (1 :> [p |-> <<9>>, t |-> T2])] }

\* the files an earlier conversion of another content of the same source
\* left in DstDir: the region file and the external file of slot 0
OldFiles(s) ==
    LET pf == parse_filename(s.name)
    IN  write_anvil_region(EmptyMap, DestOf(s.name),
            set_chunk(Region_new(pf.x, pf.z), 0,
                      Chunk_new(<<11>>, ChunkX(pf.x, 0), ChunkZ(pf.z, 0)), T2))

InitWriter ==
    \E s \in WriterSources, again \in BOOLEAN :
        InitWorkersWith({1}, [w \in {1} |-> s], IF again THEN OldFiles(s) ELSE EmptyMap)

SpecWriter == InitWriter /\ [][NextWorkers]_vars

\* the region file written by worker w's call is at its final path
Visible(w) ==
    /\ aw[w].target = cur[w].dest
    /\ Exists(fs, cur[w].dest)
    /\ fs[cur[w].dest].content = aw[w].data

\* what read_anvil_region returns for w's destination is w's Region, chunk
\* by chunk
ReadsBack(w, res) ==
    /\ res.ok
    /\ DOMAIN res.region.chunks = DOMAIN region[w].chunks
    /\ \A i \in DOMAIN region[w].chunks :
          res.region.chunks[i].data = region[w].chunks[i].data

\* C27: whenever the region file written by a call of write_anvil_region is
\* visible under its final name, every external file it refers to is
\* present under its final name with the complete compressed payload of
\* this call, and a reader of the region file obtains every chunk.
C27_ExternalsBeforeRegion ==
    \A w \in DOMAIN aw :
        Visible(w) =>
            /\ \A i \in ExternalSlots(w) :
                  /\ Exists(fs, ExternalPath(region[w], cur[w].dest.dir, i))
                  /\ fs[ExternalPath(region[w], cur[w].dest.dir, i)].content
                        = ExternalData(region[w].chunks[i].data)
            /\ ReadsBack(w, read_anvil_region(fs, cur[w].dest))

\* a region file with two external chunks is visible and the call has returned
C27_Witness ==
    /\ DOMAIN aw = {1}
    /\ aw[1].pc = "done"
    /\ Visible(1)
    /\ Cardinality(ExternalSlots(1)) = 2
    /\ fs[ExternalPath(region[1], cur[1].dest.dir, 0)].mtime.secs = region[1].mtime

(***************************************************************************)
(* The two command-line tools over a directory of MaxFiles files: main     *)
(* hands each file to a rayon task (convert_region_files.rs 317-338,       *)
(* fix_nbt_corruption.rs 108-129), the tasks run in any interleaving, and  *)
(* main ends the process when all have finished.                           *)
(*   cur    : the arguments: tool, mode (the source format), the flags,    *)
(*            and the source files                                         *)
(*   aw[t]  : task t: pc, the result of its function (failed), the sizes   *)
(*            it measured, the counters it added to (counted), its FixStats*)
(*   status : the ConversionStats counters, and the exit code once the     *)
(*            process has ended                                            *)
(*   trace  : the error lines printed, by task                             *)
(*   fix    : total_stats of fix_nbt_corruption once reduced               *)
(***************************************************************************)
MaxFiles == 2

FileKinds == {"good", "bad", "empty", "kept"}

\* a chunk payload that is well-formed NBT
GoodPayload == PayloadOf(Root(<<Compound([UUID |-> IntArray(<<1, 2, 3, 4>>)])>>, <<>>))

GoodAnvil ==
    AnvilSource(0 :> [fl |-> "inline", p |-> GoodPayload, t |-> T1],
                [gap |-> 0, absent_ts |-> 0, short |-> 0])

GoodLinear ==
    LinearSource(0 :> [p |-> GoodPayload, t |-> T1], [version |-> 1, absent_ts |-> 0],
                 NoFault)

\* the content of a source file: well-formed, too short to be read, empty
PoolContent(kind, ext) ==
    LET good == IF ext = ExtMca THEN GoodAnvil ELSE GoodLinear
    IN  CASE kind = "bad" -> [good EXCEPT !.size = 10]
          [] kind = "empty" -> [good EXCEPT !.size = 0]
          [] OTHER -> good

PoolExt(mode) == IF mode = "mca" THEN ExtMca ELSE ExtLinear

OtherExt(mode) == IF mode = "mca" THEN ExtLinear ELSE ExtMca

PoolSource(t, mode) == PathOf(SrcDir, RegionName(t - 1, 0, PoolExt(mode)))

\* convert_region_files.rs 121-130
DestPath(source_path, mode) ==
    PathOf(DstDir, replace(source_path.name, <<".">> \o PoolExt(mode),
                           <<".">> \o OtherExt(mode)))

\* the source files, and for a "kept" one a destination file modified after
\* its source
PoolFs(kinds, mode) ==
    LET srcs == {PoolSource(t, mode) : t \in DOMAIN kinds}
        kept == {DestPath(PoolSource(t, mode), mode) : t \in {u \in DOMAIN kinds : kinds[u] = "kept"}}
    IN  [q \in srcs \cup kept |->
           IF q \in srcs
           THEN [content |-> PoolContent(kinds[CHOOSE t \in DOMAIN kinds :
                                                  PoolSource(t, mode) = q], PoolExt(mode)),
                 mtime |-> SourceMtime, synced |-> TRUE]
           ELSE [content |-> PoolContent("good", OtherExt(mode)),
                 mtime |-> NowTime, synced |-> TRUE]]

ConversionStats_new ==
    [converted |-> 0, skipped |-> 0, errors |-> 0, total_input_bytes |-> 0,
     total_output_bytes |-> 0, exited |-> FALSE, code |-> 0]

TaskStart ==
    [pc |-> "start", failed |-> FALSE, source_size |-> 0, dest_size |-> 0,
     counted |-> <<>>, stats |-> FixStats_default]

InitPool ==
    /\ \E tool \in {"convert", "fix"}, mode \in {"mca", "linear"},
          kinds \in [1..MaxFiles -> FileKinds],
          skip_existing \in BOOLEAN, verify \in BOOLEAN :
          /\ tool = "fix" => (~skip_existing /\ ~verify /\ \A t \in DOMAIN kinds : kinds[t] # "kept")
          /\ cur = [tool |-> tool, mode |-> mode, skip_existing |-> skip_existing,
                    verify |-> verify,
                    files |-> [t \in DOMAIN kinds |-> PoolSource(t, mode)]]
          /\ fs = PoolFs(kinds, mode)
          /\ aw = [t \in DOMAIN kinds |-> TaskStart]
    /\ status = ConversionStats_new
    /\ trace = <<>>
    /\ fix = NoFix
    /\ region = NoRegion
    /\ first = NoRegion
    /\ build = "release"

\* AtomicU64::fetch_add: the counter's value after the call
fetch_add(v, n) == v + n

add_skipped(stats) == [stats EXCEPT !.skipped = fetch_add(@, 1)]

\* variant: an error is counted by the Err arm of convert_single_file
\* (convert_region_files.rs 192) and again by main (332)
add_error_Twice(stats) == [stats EXCEPT !.errors = fetch_add(fetch_add(@, 1), 1)]

add_error(stats) == [stats EXCEPT !.errors = fetch_add(@, 1)]

\* convert_single_file, lines 117-164: "skipped", "error" (the function
\* returns Err through a ?) or "written", with the file system afterwards
convert_write(f, source_path, mode, skip_existing) ==
    LET dest_path == DestPath(source_path, mode)
        written(res) ==
            IF ~res.ok THEN [outcome |-> "error", fs |-> f, err |-> res.err]
            ELSE [outcome |-> "written", err |-> "",
                  fs |-> IF mode = "mca"
                         THEN write_linear_region(f, dest_path, res.region, CompressionLevel)
                         ELSE write_anvil_region(f, dest_path, res.region)]
    IN  IF ~should_convert_file(f, source_path, dest_path, skip_existing)
        THEN [outcome |-> "skipped", fs |-> f, err |-> ""]
        ELSE IF f[source_path].content.size = 0
        THEN [outcome |-> "skipped", fs |-> f, err |-> ""]
        ELSE written(IF mode = "mca" THEN read_anvil_region(f, source_path)
                     ELSE read_linear_region(f, source_path))

\* convert_single_file, lines 167-176: what the --verify step returns.  The
\* result of verify_linear_file is dropped (170); an error of
\* read_anvil_region is returned (173).
verify_result(f, dest_path, mode) ==
    IF mode = "mca" THEN [ok |-> TRUE, checked |-> verify_linear_file(f, dest_path)]
    ELSE [ok |-> read_anvil_region(f, dest_path).ok,
          checked |-> read_anvil_region(f, dest_path).ok]

PoolUnchanged == UNCHANGED <<region, first, cur, build, fix>>

\* convert_single_file up to the write of the destination file
PoolConvert(t) ==
    /\ cur.tool = "convert"
    /\ aw[t].pc = "start"
    /\ LET dest_path == DestPath(cur.files[t], cur.mode)
           after(res) ==
             /\ fs' = res.fs
             /\ aw' = [aw EXCEPT ![t] =
                   CASE res.outcome = "skipped" -> [@ EXCEPT !.pc = "add_skipped"]
                     [] res.outcome = "error" -> [@ EXCEPT !.pc = "report", !.failed = TRUE]
                     [] OTHER ->
                          [@ EXCEPT !.pc = IF cur.verify THEN "verify" ELSE "add_converted",
                                    !.source_size = fs[cur.files[t]].content.size,
                                    !.dest_size = res.fs[dest_path].content.size]]
       IN  after(convert_write(fs, cur.files[t], cur.mode, cur.skip_existing))
    /\ UNCHANGED <<status, trace>>
    /\ PoolUnchanged

\* another process or the file system cuts a destination file to no bytes
\* between its write and its check
PoolDamage(t) ==
    /\ cur.tool = "convert"
    /\ aw[t].pc = "verify"
    /\ fs[DestPath(cur.files[t], cur.mode)].content.size # 0
    /\ fs' = [fs EXCEPT ![DestPath(cur.files[t], cur.mode)].content.size = 0]
    /\ UNCHANGED <<aw, status, trace>>
    /\ PoolUnchanged

\* convert_single_file, lines 167-176
PoolVerify(t) ==
    /\ cur.tool = "convert"
    /\ aw[t].pc = "verify"
    /\ aw' = [aw EXCEPT ![t] =
                 IF verify_result(fs, DestPath(cur.files[t], cur.mode), cur.mode).ok
                 THEN [@ EXCEPT !.pc = "add_converted"]
                 ELSE [@ EXCEPT !.pc = "report", !.failed = TRUE]]
    /\ UNCHANGED <<fs, status, trace>>
    /\ PoolUnchanged

\* add_converted (63-67): three fetch_add calls
PoolAddConverted(t) ==
    /\ aw[t].pc \in {"add_converted", "add_input", "add_output"}
    /\ \/ /\ aw[t].pc = "add_converted"
          /\ status' = [status EXCEPT !.converted = fetch_add(@, 1)]
          /\ aw' = [aw EXCEPT ![t] = [@ EXCEPT !.pc = "add_input",
                                               !.counted = Append(@, "converted")]]
       \/ /\ aw[t].pc = "add_input"
          /\ status' = [status EXCEPT !.total_input_bytes = fetch_add(@, aw[t].source_size)]
          /\ aw' = [aw EXCEPT ![t] = [@ EXCEPT !.pc = "add_output"]]
       \/ /\ aw[t].pc = "add_output"
          /\ status' = [status EXCEPT !.total_output_bytes = fetch_add(@, aw[t].dest_size)]
          /\ aw' = [aw EXCEPT ![t] = [@ EXCEPT !.pc = "done"]]
    /\ UNCHANGED <<fs, trace>>
    /\ PoolUnchanged

\* add_skipped (133, 139), then Ok(())
PoolAddSkipped(t) ==
    /\ aw[t].pc = "add_skipped"
    /\ status' = add_skipped(status)
    /\ aw' = [aw EXCEPT ![t] = [@ EXCEPT !.pc = "done", !.counted = Append(@, "skipped")]]
    /\ UNCHANGED <<fs, trace>>
    /\ PoolUnchanged

\* main, lines 330-333: the error is printed and counted
PoolAddError(t) ==
    /\ cur.tool = "convert"
    /\ aw[t].pc = "report"
    /\ trace' = Append(trace, t)
    /\ status' = add_error(status)
    /\ aw' = [aw EXCEPT ![t] = [@ EXCEPT !.pc = "done", !.counted = Append(@, "errors")]]
    /\ UNCHANGED fs
    /\ PoolUnchanged

\* fix_nbt_corruption.rs 109-126: fix_region_file, and the error line when
\* it fails
PoolFix(t) ==
    /\ cur.tool = "fix"
    /\ aw[t].pc = "start"
    /\ LET after(res) ==
             /\ fs' = res.fs
             /\ aw' = [aw EXCEPT ![t] = [@ EXCEPT !.pc = "done", !.failed = ~res.ok,
                                                  !.stats = res.stats]]
             /\ trace' = IF res.ok THEN trace ELSE Append(trace, t)
       IN  after(fix_region_file(fs, cur.files[t],
                                 [backup |-> FALSE, dry_run |-> FALSE, output |-> ""],
                                 <<0>>, [k \in 1..(MaxEntities - 1) |-> <<7, 16384, 0 - I32_MAX, 9>>],
                                 build))
    /\ UNCHANGED status
    /\ PoolUnchanged

RECURSIVE MergeAll(_, _)
MergeAll(tasks, k) ==
    IF k > Len(tasks) THEN FixStats_default
    ELSE merge(tasks[k].stats, MergeAll(tasks, k + 1))

\* the end of main: convert_region_files.rs 346-372 (exit(1) when errors
\* is not zero), fix_nbt_corruption.rs 127-143 (Ok(()))
PoolExit ==
    /\ ~status.exited
    /\ \A t \in DOMAIN aw : aw[t].pc = "done"
    /\ status' = [status EXCEPT !.exited = TRUE,
                                !.code = IF cur.tool = "convert" /\ status.errors > 0
                                         THEN 1 ELSE 0]
    /\ fix' = IF cur.tool = "fix" THEN <<MergeAll(aw, 1)>> ELSE fix
    /\ UNCHANGED <<fs, region, first, trace, cur, aw, build>>

NextPool ==
    \/ \E t \in DOMAIN aw : PoolConvert(t)
    \/ \E t \in DOMAIN aw : PoolDamage(t)
    \/ \E t \in DOMAIN aw : PoolVerify(t)
    \/ \E t \in DOMAIN aw : PoolAddConverted(t)
    \/ \E t \in DOMAIN aw : PoolAddSkipped(t)
    \/ \E t \in DOMAIN aw : PoolAddError(t)
    \/ \E t \in DOMAIN aw : PoolFix(t)
    \/ PoolExit

SpecPool == InitPool /\ [][NextPool]_vars

\* the number of tasks that added to the counter c, once
CountedIn(c) == Cardinality({t \in DOMAIN aw : aw[t].counted = <<c>>})

\* C26: when convert_region_files has ended, in every interleaving of its
\* tasks and whatever files failed, each input file was counted in exactly
\* one of converted, skipped and errors, each counter is the number of
\* files counted in it, and the three add up to the number of files.
C26_EveryFileCountedOnce ==
    (cur.tool = "convert" /\ status.exited) =>
        /\ \A t \in DOMAIN aw : Len(aw[t].counted) = 1
        /\ status.converted = CountedIn("converted")
        /\ status.skipped = CountedIn("skipped")
        /\ status.errors = CountedIn("errors")
        /\ status.converted + status.skipped + status.errors = Len(cur.files)

\* the process has ended after one file was converted and the other failed
C26_Witness ==
    /\ cur.tool = "convert"
    /\ status.exited
    /\ status.converted = 1
    /\ status.errors = 1
    /\ Len(cur.files) = 2

\* the destination file of task t passes the check of its mode:
\* verify_linear_file, or a read_anvil_region that succeeds
DestinationPasses(t) ==
    IF cur.mode = "mca"
    THEN verify_linear_file(fs, DestPath(cur.files[t], cur.mode))
    ELSE read_anvil_region(fs, DestPath(cur.files[t], cur.mode)).ok

\* C29: with --verify, in both modes, when the check made after a
\* successful write finds that the destination file fails it, the file goes
\* on to be counted as an error and not as converted.
C29_FailedCheckIsError ==
    [][\A t \in DOMAIN aw :
          (/\ cur.tool = "convert"
           /\ cur.verify
           /\ aw[t].pc = "verify"
           /\ aw'[t].pc # "verify"
           /\ ~DestinationPasses(t)) => aw'[t].pc = "report"]_vars

\* the tasks whose error line was printed
Reported == {trace[k] : k \in DOMAIN trace}

\* C22: in both tools, when the process has ended every file has been
\* processed, every file whose function returned an error has had its error
\* line printed, and the exit code is non-zero exactly when at least one
\* file failed.
C22_FailuresAndExitCode ==
    status.exited =>
        /\ \A t \in DOMAIN aw : aw[t].pc = "done"
        /\ \A t \in DOMAIN aw : aw[t].failed => t \in Reported
        /\ (status.code # 0) <=> (\E t \in DOMAIN aw : aw[t].failed)

(***************************************************************************)
(* The visiting order of the chunk map (fix_nbt_corruption.rs 165: the     *)
(* iteration order of a HashMap with a random hasher).  Two runs of        *)
(* FixRegionFile on the same files differ in the order chosen and in the   *)
(* UUIDs drawn.                                                            *)
(***************************************************************************)
\* the entities of a run's Region, by position, that hold a UUID and hold
\* the same one afterwards
KeptUuid(run) ==
    LET sets(old, new) ==
          {a \in DOMAIN old : HasUuid(old[a]) /\ new[a].map["UUID"] = old[a].map["UUID"]}
    IN  sets(EntitiesOf(run.before), EntitiesOf(run.after))

\* the entities that hold a UUID and hold another one afterwards
NewUuid(run) ==
    LET sets(old, new) ==
          {a \in DOMAIN old : HasUuid(old[a]) /\ new[a].map["UUID"] # old[a].map["UUID"]}
    IN  sets(EntitiesOf(run.before), EntitiesOf(run.after))

\* two runs that returned Ok on the same files with the same arguments and
\* deleted no entity
SameInput ==
    /\ Len(fix) = 2
    /\ fix[1].ok /\ fix[2].ok
    /\ fix[1].files = fix[2].files
    /\ fix[1].args = fix[2].args
    /\ Len(EntitiesOf(fix[1].before)) = Len(EntitiesOf(fix[1].after))
    /\ Len(EntitiesOf(fix[2].before)) = Len(EntitiesOf(fix[2].after))

\* C28: two repairs of the same region file, whatever order each visits
\* the chunks in, leave the UUID of the same entities unchanged, give a new
\* UUID to the same entities, and return the same fix counters.
C28_OrderIndependent ==
    SameInput =>
        /\ KeptUuid(fix[1]) = KeptUuid(fix[2])
        /\ NewUuid(fix[1]) = NewUuid(fix[2])
        /\ fix[1].stats = fix[2].stats

=============================================================================
